---- MODULE Spec2Model ----
(***************************************************************************)
(* A model of sheldon's locking and rendering pipeline:                    *)
(*   - Config::lock      (src/src/lock.rs): the orchestrator that groups   *)
(*     plugins by source and installs the groups on a scoped thread pool;  *)
(*   - Plugin::lock      (src/src/lock.rs): file selection by glob;        *)
(*   - Sheldon::lock / Sheldon::source / Sheldon::run (src/src/lib.rs):    *)
(*     the top-level flows around the lock file.                           *)
(*                                                                         *)
(* Text (paths, patterns, names) is a sequence of atoms; an atom stands    *)
(* for a run of characters.  A template is a sequence of parts, a part     *)
(* being literal text or a {{ variable }}.                                 *)
(***************************************************************************)
EXTENDS Integers, Sequences, FiniteSets, TLC

\* ------------------------------------------------------------------------
\* Bounds of the model
\* ------------------------------------------------------------------------

\* Largest number of plugins in a manifest given to Config::lock.
MaxPlugins == 3

\* Largest number of `uses` entries of the plugin given to Plugin::lock.
MaxUses == 2

\* Largest number of global `matches` patterns given to Plugin::lock.
MaxMatches == 3

\* Largest number of errors a LockedConfig carries.
MaxErrors == 2

\* Largest number of invocations of the program in a row.
MaxRuns == 2

\* Largest number of plugins of a LockedConfig that is rendered and stored.
MaxLocked == 2

\* Largest number of calls of Source::lock on one source in a row.
MaxInstalls == 3

\* Largest number of calls of GitReference::lock on one repository.
MaxPins == 2

\* ------------------------------------------------------------------------
\* Program constants
\* ------------------------------------------------------------------------

MAX_THREADS == 8

CLONE_DIRECTORY == "repositories"

DOWNLOAD_DIRECTORY == "downloads"

\* ------------------------------------------------------------------------
\* Option, Result and small helpers
\* ------------------------------------------------------------------------

\* Option<T>: the empty sequence is None, a one-element sequence is Some(x).
None == <<>>

Some(x) == <<x>>

IsSome(o) == Len(o) = 1

Min(a, b) == IF a < b THEN a ELSE b

Range(s) == {s[i] : i \in 1..Len(s)}

RECURSIVE Flatten(_)
Flatten(ss) == IF ss = <<>> THEN <<>> ELSE Head(ss) \o Flatten(Tail(ss))

\* ------------------------------------------------------------------------
\* Text, paths, templates and globs
\* ------------------------------------------------------------------------

\* The atoms of the model in character order ('*' < '.' < '/' < digits <
\* letters); glob results are sorted by it.
AtomOrder ==
    << "*", ".html", ".txt", "/", "1", "2", "[", "downloads", "index",
       "github.com", "host.io", "local", "missing", "other", "p0", "p1", "p2",
       "p3", "p4", "p5", "plug", "repositories", "root", "test", "~", "" >>

AtomRank(a) == CHOOSE i \in 1..Len(AtomOrder) : AtomOrder[i] = a

\* Lexicographic order on texts.
RECURSIVE TextLess(_, _)
TextLess(s, t) ==
    IF t = <<>> THEN FALSE
    ELSE IF s = <<>> THEN TRUE
    ELSE IF Head(s) = Head(t) THEN TextLess(Tail(s), Tail(t))
    ELSE AtomRank(Head(s)) < AtomRank(Head(t))

\* The elements of a set of texts as a sequence in ascending order.
RECURSIVE SortedTexts(_)
SortedTexts(S) ==
    IF S = {} THEN <<>>
    ELSE LET m == CHOOSE x \in S : \A y \in S \ {x} : TextLess(x, y)
         IN  <<m>> \o SortedTexts(S \ {m})

\* Path::join: an absolute right-hand side replaces the left-hand side.
PathJoin(dir, rel) ==
    IF rel # <<>> /\ Head(rel) = "/" THEN rel ELSE dir \o <<"/">> \o rel

\* A template part: literal text or a variable reference.
Lit(a) == [var |-> FALSE, val |-> a]

Var(v) == [var |-> TRUE, val |-> v]

\* A rendering that is not strict: a variable that is not in the data
\* renders as nothing.
RECURSIVE RenderTemplateLenient(_, _)
RenderTemplateLenient(t, data) ==
    IF t = <<>> THEN [ok |-> TRUE, text |-> <<>>]
    ELSE LET p == Head(t)
             rest == RenderTemplateLenient(Tail(t), data)
         IN  [ok |-> TRUE,
              text |-> (IF ~p.var THEN <<p.val>>
                        ELSE IF p.val \in DOMAIN data THEN data[p.val] ELSE <<>>)
                       \o rest.text]

\* handlebars render_template in strict mode: a variable that is not in the
\* data is an error, otherwise the parts are concatenated with every variable
\* replaced by its value.
RECURSIVE RenderTemplate(_, _)
RenderTemplate(t, data) ==
    IF t = <<>> THEN [ok |-> TRUE, text |-> <<>>]
    ELSE LET p == Head(t)
             rest == RenderTemplate(Tail(t), data)
         IN  IF p.var /\ p.val \notin DOMAIN data
             THEN [ok |-> FALSE, text |-> <<>>]
             ELSE IF ~rest.ok THEN rest
             ELSE [ok |-> TRUE,
                   text |-> (IF p.var THEN data[p.val] ELSE <<p.val>>) \o rest.text]

\* glob::Pattern matching of one path: '*' matches any run of characters that
\* holds no path separator, anything else matches itself.
RECURSIVE WildMatch(_, _)
WildMatch(p, s) ==
    IF p = <<>> THEN s = <<>>
    ELSE IF Head(p) = "*"
         THEN \E k \in 0..Len(s) :
                 /\ \A i \in 1..k : s[i] # "/"
                 /\ WildMatch(Tail(p), SubSeq(s, k + 1, Len(s)))
         ELSE s # <<>> /\ Head(s) = Head(p) /\ WildMatch(Tail(p), Tail(s))

\* glob::glob fails to parse a pattern with an unclosed character class.
GlobParses(pattern) == "[" \notin Range(pattern)

\* glob::glob(pattern): the paths of the file system that match, in
\* alphabetical order.
Glob(pattern, fs) == SortedTexts({f \in fs : WildMatch(pattern, f)})

\* ------------------------------------------------------------------------
\* Errors
\* ------------------------------------------------------------------------

\* An error is its chain of messages, outermost context first.
Error(msg, arg) == <<[msg |-> msg, arg |-> arg]>>

\* ResultExt::ctx: wrap an error in one more message.
Ctx(err, msg, arg) == <<[msg |-> msg, arg |-> arg]>> \o err

\* ------------------------------------------------------------------------
\* Plugin::lock: file selection
\* ------------------------------------------------------------------------

\* A match_globs that reports a match whatever the glob found.
MatchGlobsAlwaysMatched(pattern, filenames, fs) ==
    IF ~GlobParses(pattern)
    THEN [ok |-> FALSE, matched |-> FALSE, filenames |-> filenames,
          err |-> Error("failed to parse glob pattern", pattern)]
    ELSE [ok |-> TRUE, matched |-> TRUE,
          filenames |-> filenames \o Glob(pattern, fs), err |-> <<>>]

\* Plugin::match_globs: append every path the pattern matches to filenames
\* and tell whether there was one.  (Every matched path is readable.)
MatchGlobs(pattern, filenames, fs) ==
    IF ~GlobParses(pattern)
    THEN [ok |-> FALSE, matched |-> FALSE, filenames |-> filenames,
          err |-> Error("failed to parse glob pattern", pattern)]
    ELSE LET paths == Glob(pattern, fs)
         IN  [ok |-> TRUE, matched |-> paths # <<>>,
              filenames |-> filenames \o paths, err |-> <<>>]

\* The loop over the plugin's own `uses`: every entry has to match a file.
\* consulted is the list of patterns handed to the glob engine so far.
RECURSIVE UsesLoop(_, _, _, _, _, _)
UsesLoop(uses, data, directory, fs, filenames, consulted) ==
    IF uses = <<>>
    THEN [ok |-> TRUE, filenames |-> filenames, consulted |-> consulted, err |-> <<>>]
    ELSE LET u == Head(uses)
             rendered == RenderTemplate(u, data)
             pattern == PathJoin(directory, rendered.text)
             m == MatchGlobs(pattern, filenames, fs)
         IN  IF ~rendered.ok
             THEN [ok |-> FALSE, filenames |-> filenames, consulted |-> consulted,
                   err |-> Error("failed to render template", u)]
             ELSE IF ~m.ok
             THEN [ok |-> FALSE, filenames |-> filenames,
                   consulted |-> Append(consulted, pattern), err |-> m.err]
             ELSE IF ~m.matched
             THEN [ok |-> FALSE, filenames |-> m.filenames,
                   consulted |-> Append(consulted, pattern),
                   err |-> Error("failed to find any files matching", rendered.text)]
             ELSE UsesLoop(Tail(uses), data, directory, fs, m.filenames,
                           Append(consulted, pattern))

\* The loop over the global `matches`: stop at the first pattern that matches.
RECURSIVE MatchesLoop(_, _, _, _, _, _)
MatchesLoop(matches, data, directory, fs, filenames, consulted) ==
    IF matches = <<>>
    THEN [ok |-> TRUE, filenames |-> filenames, consulted |-> consulted, err |-> <<>>]
    ELSE LET g == Head(matches)
             rendered == RenderTemplate(g, data)
             pattern == PathJoin(directory, rendered.text)
             m == MatchGlobs(pattern, filenames, fs)
         IN  IF ~rendered.ok
             THEN [ok |-> FALSE, filenames |-> filenames, consulted |-> consulted,
                   err |-> Error("failed to render template", g)]
             ELSE IF ~m.ok
             THEN [ok |-> FALSE, filenames |-> filenames,
                   consulted |-> Append(consulted, pattern), err |-> m.err]
             ELSE IF m.matched
             THEN [ok |-> TRUE, filenames |-> m.filenames,
                   consulted |-> Append(consulted, pattern), err |-> <<>>]
             ELSE MatchesLoop(Tail(matches), data, directory, fs, m.filenames,
                              Append(consulted, pattern))

\* The data of a plugin's template context.
PluginData(settings, name, directory) ==
    [root |-> settings.root, name |-> <<name>>, directory |-> directory]

\* A selection that treats `uses` as a first-wins cascade.
SelectFilesFirstWins(plugin, settings, directory, matches, fs) ==
    MatchesLoop(IF IsSome(plugin.uses) THEN plugin.uses[1] ELSE matches,
                PluginData(settings, plugin.name, directory), directory, fs, <<>>, <<>>)

\* A selection that walks all of `matches` and insists on a match for each.
SelectFilesNoBreak(plugin, settings, directory, matches, fs) ==
    UsesLoop(IF IsSome(plugin.uses) THEN plugin.uses[1] ELSE matches,
             PluginData(settings, plugin.name, directory), directory, fs, <<>>, <<>>)

\* The file selection of a plugin that is not Remote.
SelectFiles(plugin, settings, directory, matches, fs) ==
    IF IsSome(plugin.uses)
    THEN UsesLoop(plugin.uses[1], PluginData(settings, plugin.name, directory),
                  directory, fs, <<>>, <<>>)
    ELSE MatchesLoop(matches, PluginData(settings, plugin.name, directory),
                     directory, fs, <<>>, <<>>)

\* A default that also replaces an apply list the plugin defined as empty.
ApplyOfNonEmpty(plugin, apply) ==
    IF IsSome(plugin.apply) /\ plugin.apply[1] # <<>> THEN plugin.apply[1] ELSE apply

\* self.apply.unwrap_or_else(|| apply.to_vec())
ApplyOf(plugin, apply) == IF IsSome(plugin.apply) THEN plugin.apply[1] ELSE apply

\* A Plugin::lock that selects the files of a Remote plugin by glob as well.
PluginLockAlwaysSelects(plugin, settings, source, matches, apply, fs) ==
    LET sel == SelectFiles(plugin, settings, source.directory, matches, fs)
    IN  IF ~sel.ok
        THEN [kind |-> "err", locked |-> <<>>, err |-> sel.err,
              consulted |-> sel.consulted]
        ELSE [kind |-> "ok",
              locked |-> [name |-> plugin.name,
                          directory |-> source.directory,
                          filenames |-> sel.filenames,
                          apply |-> ApplyOf(plugin, apply)],
              err |-> <<>>, consulted |-> sel.consulted]

\* Plugin::lock.  kind is "ok" (locked is the LockedPlugin), "err" (err is the
\* error) or "panic" (unwrap of a LockedSource without a filename).
PluginLock(plugin, settings, source, matches, apply, fs) ==
    IF plugin.source.kind = "Remote"
    THEN IF ~IsSome(source.filename)
         THEN [kind |-> "panic", locked |-> <<>>, err |-> <<>>, consulted |-> <<>>]
         ELSE [kind |-> "ok",
               locked |-> [name |-> plugin.name,
                           directory |-> source.directory,
                           filenames |-> <<source.filename[1]>>,
                           apply |-> ApplyOf(plugin, apply)],
               err |-> <<>>, consulted |-> <<>>]
    ELSE LET sel == SelectFiles(plugin, settings, source.directory, matches, fs)
         IN  IF ~sel.ok
             THEN [kind |-> "err", locked |-> <<>>, err |-> sel.err,
                   consulted |-> sel.consulted]
             ELSE [kind |-> "ok",
                   locked |-> [name |-> plugin.name,
                               directory |-> source.directory,
                               filenames |-> sel.filenames,
                               apply |-> ApplyOf(plugin, apply)],
                   err |-> <<>>, consulted |-> sel.consulted]

\* ------------------------------------------------------------------------
\* The world outside the program: upstream repositories and the disk
\* ------------------------------------------------------------------------

\* The object database every clone receives: two commits, the newer on top
\* of the older, an annotated tag of the older commit, a tag of that tag,
\* and a blob.
Objects ==
    [c1 |-> [type |-> "commit", target |-> "c1"],
     c2 |-> [type |-> "commit", target |-> "c2"],
     t1 |-> [type |-> "tag", target |-> "c1"],
     t2 |-> [type |-> "tag", target |-> "t1"],
     b1 |-> [type |-> "blob", target |-> "b1"]]

\* The first parent of the commits that have one.
Parents == [c2 |-> "c1"]

\* The branches of the upstream repository.
Branches == [master |-> "c2"]

Tags == [derp |-> "c2", v1 |-> "t1", nested |-> "t2"]

\* A clone of the upstream repository whose local branch, the one HEAD is
\* on, points at that commit.
CloneAt(commit) ==
    [objects |-> Objects, parents |-> Parents, tags |-> Tags, head |-> commit]

\* The files of a commit's tree, relative to the working directory.
TreeOf(commit) ==
    IF commit = "c2"
    THEN {<<"1", ".txt">>, <<"2", ".txt">>, <<"test", ".html">>}
    ELSE {<<"1", ".txt">>}

\* The disk: the directories, the plain files with their content and the
\* time they were last written, the commit the local branch of every git
\* working directory points at, and the time.
EmptyDisk == [dirs |-> {}, files |-> <<>>, head |-> <<>>, clock |-> 1]

\* Every path that exists, as the glob engine sees the disk.
FsPaths(disk) ==
    disk.dirs \cup DOMAIN disk.files \cup DOMAIN disk.head
    \cup UNION {{PathJoin(d, f) : f \in TreeOf(disk.head[d])} : d \in DOMAIN disk.head}

PathExists(disk, path) == path \in FsPaths(disk)

\* ------------------------------------------------------------------------
\* GitReference::lock
\* ------------------------------------------------------------------------

\* Object::peel(ObjectType::Commit): follow tags down to a commit.
RECURSIVE Peel(_, _)
Peel(repo, oid) ==
    IF repo.objects[oid].type = "commit" THEN Some(oid)
    ELSE IF repo.objects[oid].type = "tag" THEN Peel(repo, repo.objects[oid].target)
    ELSE None

\* Repository::revparse_single: an object id, HEAD or the local branch, the
\* first parent of HEAD, or the name of a tag.
RevparseSingle(repo, spec) ==
    IF spec \in DOMAIN repo.objects THEN Some(spec)
    ELSE IF spec \in {"HEAD", "master"} THEN Some(repo.head)
    ELSE IF spec = "HEAD^"
    THEN IF repo.head \in DOMAIN repo.parents THEN Some(repo.parents[repo.head]) ELSE None
    ELSE IF spec \in DOMAIN repo.tags THEN Some(repo.tags[spec])
    ELSE None

\* A pinner that knows branches only.
GitReferenceLockBranchOnly(reference, repo) ==
    IF reference.kind = "Branch" /\ reference.name = "master"
    THEN [ok |-> TRUE, id |-> repo.head, err |-> <<>>]
    ELSE [ok |-> FALSE, id |-> "",
          err |-> Error("failed to find branch", <<reference.name>>)]

\* GitReference::lock on an open repository.  The only local branch of a
\* clone is the one HEAD is on.
GitReferenceLock(reference, repo) ==
    IF reference.kind = "Branch"
    THEN IF reference.name = "master"
         THEN [ok |-> TRUE, id |-> repo.head, err |-> <<>>]
         ELSE [ok |-> FALSE, id |-> "",
               err |-> Error("failed to find branch", <<reference.name>>)]
    ELSE IF reference.kind = "Revision"
    THEN LET obj == RevparseSingle(repo, reference.name)
         IN  IF ~IsSome(obj)
             THEN [ok |-> FALSE, id |-> "",
                   err |-> Error("failed to find revision", <<reference.name>>)]
             ELSE [ok |-> TRUE,
                   id |-> IF repo.objects[obj[1]].type = "tag"
                          THEN repo.objects[obj[1]].target ELSE obj[1],
                   err |-> <<>>]
    ELSE IF reference.name \in DOMAIN repo.tags
            /\ IsSome(Peel(repo, repo.tags[reference.name]))
         THEN [ok |-> TRUE, id |-> Peel(repo, repo.tags[reference.name])[1], err |-> <<>>]
         ELSE [ok |-> FALSE, id |-> "",
               err |-> Error("failed to find tag", <<reference.name>>)]

\* ------------------------------------------------------------------------
\* Source::lock: the source installer
\* ------------------------------------------------------------------------

\* One write of an installer to the disk.
Wrote(op, path) == [op |-> op, path |-> path]

\* A lock_git that treats every failure of the clone alike, the
\* already-exists code included.
LockGitNoReopen(directory, url, reference, disk, net) ==
    LET exists == PathExists(disk, directory)
        cloned == [disk EXCEPT !.head = (directory :> Branches["master"]) @@ @]
        repo == CloneAt(cloned.head[directory])
        pin == GitReferenceLock(reference[1], repo)
    IN  IF exists \/ net # "ok"
        THEN [ok |-> FALSE, locked |-> <<>>, disk |-> disk, fetched |-> ~exists,
              wrote |-> {}, err |-> Error("failed to git clone", url)]
        ELSE IF ~IsSome(reference)
        THEN [ok |-> TRUE,
              locked |-> [directory |-> directory, filename |-> None],
              disk |-> cloned, fetched |-> TRUE,
              wrote |-> {Wrote("clone", directory)}, err |-> <<>>]
        ELSE IF ~pin.ok
        THEN [ok |-> FALSE, locked |-> <<>>, disk |-> cloned, fetched |-> TRUE,
              wrote |-> {Wrote("clone", directory)}, err |-> pin.err]
        ELSE IF ~IsSome(Peel(repo, pin.id))
        THEN [ok |-> FALSE, locked |-> <<>>, disk |-> cloned, fetched |-> TRUE,
              wrote |-> {Wrote("clone", directory)},
              err |-> Error("failed to reset repository to revision", <<pin.id>>)]
        ELSE [ok |-> TRUE,
              locked |-> [directory |-> directory, filename |-> None],
              disk |-> [cloned EXCEPT !.head[directory] = Peel(repo, pin.id)[1]],
              fetched |-> TRUE,
              wrote |-> {Wrote("clone", directory), Wrote("reset", directory)},
              err |-> <<>>]

\* Source::lock_git.  net is what the network does when it is asked: "ok" or
\* "fail".  A clone into a directory that exists fails with ErrorCode::Exists
\* before the network is used; a failed clone leaves nothing behind.  The
\* hard reset moves the local branch and the working tree to the commit.
LockGit(directory, url, reference, disk, net) ==
    LET exists == PathExists(disk, directory)
        cloned == [disk EXCEPT !.head = (directory :> Branches["master"]) @@ @]
        opened == IF exists THEN disk ELSE cloned
        first == IF exists THEN {} ELSE {Wrote("clone", directory)}
        repo == CloneAt(opened.head[directory])
        pin == GitReferenceLock(reference[1], repo)
    IN  IF ~exists /\ net # "ok"
        THEN [ok |-> FALSE, locked |-> <<>>, disk |-> disk, fetched |-> TRUE,
              wrote |-> {}, err |-> Error("failed to git clone", url)]
        ELSE IF exists /\ directory \notin DOMAIN disk.head
        THEN [ok |-> FALSE, locked |-> <<>>, disk |-> disk, fetched |-> FALSE,
              wrote |-> {}, err |-> Error("failed to open repository at", directory)]
        ELSE IF ~IsSome(reference)
        THEN [ok |-> TRUE,
              locked |-> [directory |-> directory, filename |-> None],
              disk |-> opened, fetched |-> ~exists, wrote |-> first, err |-> <<>>]
        ELSE IF ~pin.ok
        THEN [ok |-> FALSE, locked |-> <<>>, disk |-> opened,
              fetched |-> ~exists, wrote |-> first, err |-> pin.err]
        ELSE IF ~IsSome(Peel(repo, pin.id))
        THEN [ok |-> FALSE, locked |-> <<>>, disk |-> opened,
              fetched |-> ~exists, wrote |-> first,
              err |-> Error("failed to reset repository to revision", <<pin.id>>)]
        ELSE [ok |-> TRUE,
              locked |-> [directory |-> directory, filename |-> None],
              disk |-> [opened EXCEPT !.head[directory] = Peel(repo, pin.id)[1]],
              fetched |-> ~exists,
              wrote |-> first \cup {Wrote("reset", directory)},
              err |-> <<>>]

\* A file written now.
FileNow(disk, content) == [content |-> content, mtime |-> disk.clock]

\* A download that asks the network whether or not the file is there.
LockRemoteAlwaysFetches(directory, filename, url, disk, net) ==
    LET source == [directory |-> directory, filename |-> Some(filename)]
        made == [disk EXCEPT !.dirs = @ \cup {directory}]
        mkdir == IF PathExists(disk, directory) THEN {} ELSE {Wrote("mkdir", directory)}
        create == mkdir \cup {Wrote("create", filename)}
    IN  IF net = "fail"
        THEN [ok |-> FALSE, locked |-> <<>>, disk |-> made, fetched |-> TRUE,
              wrote |-> mkdir, err |-> Error("failed to download from", url)]
        ELSE [ok |-> net = "ok",
              locked |-> IF net = "ok" THEN source ELSE <<>>,
              disk |-> [made EXCEPT
                          !.files = (filename :>
                              FileNow(disk, IF net = "ok" THEN "complete" ELSE "partial"))
                              @@ @,
                          !.clock = @ + 1],
              fetched |-> TRUE, wrote |-> create,
              err |-> IF net = "ok" THEN <<>>
                      ELSE Error("failed to copy contents to", filename)]

\* Source::lock_remote.  net is "ok", "fail" (the request fails) or "cut" (the
\* body breaks off while it is copied to the file).
LockRemote(directory, filename, url, disk, net) ==
    LET source == [directory |-> directory, filename |-> Some(filename)]
        made == [disk EXCEPT !.dirs = @ \cup {directory}]
        mkdir == IF PathExists(disk, directory) THEN {} ELSE {Wrote("mkdir", directory)}
        create == mkdir \cup {Wrote("create", filename)}
    IN  IF PathExists(disk, filename)
        THEN [ok |-> TRUE, locked |-> source, disk |-> disk, fetched |-> FALSE,
              wrote |-> {}, err |-> <<>>]
        ELSE IF net = "fail"
        THEN [ok |-> FALSE, locked |-> <<>>, disk |-> made, fetched |-> TRUE,
              wrote |-> mkdir, err |-> Error("failed to download from", url)]
        ELSE IF net = "cut"
        THEN [ok |-> FALSE, locked |-> <<>>,
              disk |-> [made EXCEPT !.files = (filename :> FileNow(disk, "partial")) @@ @,
                                    !.clock = @ + 1],
              fetched |-> TRUE, wrote |-> create,
              err |-> Error("failed to copy contents to", filename)]
        ELSE [ok |-> TRUE, locked |-> source,
              disk |-> [made EXCEPT !.files = (filename :> FileNow(disk, "complete")) @@ @,
                                    !.clock = @ + 1],
              fetched |-> TRUE, wrote |-> create, err |-> <<>>]

\* Settings::expand_tilde: a leading home shortcut is the home directory.
ExpandTilde(settings, directory) ==
    IF directory # <<>> /\ Head(directory) = "~"
    THEN settings.home \o Tail(directory)
    ELSE directory

\* Source::lock_local.
LockLocal(settings, directory, disk) ==
    LET dir == ExpandTilde(settings, directory)
    IN  IF ~PathExists(disk, dir)
        THEN [ok |-> FALSE, locked |-> <<>>, disk |-> disk, fetched |-> FALSE,
              wrote |-> {}, err |-> Error("failed to find directory", dir)]
        ELSE IF dir \notin disk.dirs \cup DOMAIN disk.head
        THEN [ok |-> FALSE, locked |-> <<>>, disk |-> disk, fetched |-> FALSE,
              wrote |-> {}, err |-> Error("is not a directory", dir)]
        ELSE [ok |-> TRUE, locked |-> [directory |-> dir, filename |-> None],
              disk |-> disk, fetched |-> FALSE, wrote |-> {}, err |-> <<>>]

\* The segments of a URL path joined by separators.
RECURSIVE JoinSegs(_)
JoinSegs(segs) ==
    IF segs = <<>> THEN <<>>
    ELSE IF Len(segs) = 1 THEN <<segs[1]>>
    ELSE <<segs[1], "/">> \o JoinSegs(Tail(segs))

\* The text of a URL, as Display prints it.
UrlText(url) == (IF IsSome(url.host) THEN <<url.host[1], "/">> ELSE <<>>) \o JoinSegs(url.segs)

\* The clone directory of a Git source.
GitDirectory(settings, url) ==
    PathJoin(PathJoin(PathJoin(settings.root, <<CLONE_DIRECTORY>>), <<url.host[1]>>),
             JoinSegs(url.segs))

\* The download directory of a Remote source: all but the last segment.
RemoteDirectory(settings, url) ==
    LET base == PathJoin(PathJoin(settings.root, <<DOWNLOAD_DIRECTORY>>), <<url.host[1]>>)
        rest == SubSeq(url.segs, 1, Len(url.segs) - 1)
    IN  IF rest = <<>> THEN base ELSE PathJoin(base, JoinSegs(rest))

\* The download filename of a Remote source.
RemoteFilename(settings, url) ==
    LET last == url.segs[Len(url.segs)]
    IN  PathJoin(RemoteDirectory(settings, url), <<IF last # "" THEN last ELSE "index">>)

\* impl fmt::Display for Source
SourceName(source) ==
    IF source.kind = "Local" THEN source.directory ELSE UrlText(source.url)

\* Source::lock.  The result holds the LockedSource or the error, the disk
\* afterwards, and whether the network was used.
SourceLock(source, settings, disk, net) ==
    IF source.kind = "Local" THEN LockLocal(settings, source.directory, disk)
    ELSE IF ~IsSome(source.url.host)
    THEN [ok |-> FALSE, locked |-> <<>>, disk |-> disk, fetched |-> FALSE,
          wrote |-> {}, err |-> Error("URL has no host", UrlText(source.url))]
    ELSE IF source.kind = "Git"
    THEN LockGit(GitDirectory(settings, source.url), UrlText(source.url),
                 source.reference, disk, net)
    ELSE LockRemote(RemoteDirectory(settings, source.url),
                    RemoteFilename(settings, source.url),
                    UrlText(source.url), disk, net)

\* ------------------------------------------------------------------------
\* Settings and the manifests of the model
\* ------------------------------------------------------------------------

\* A snapshot that stores the config file's location as the lock file's.
SettingsLockOnePath(settings) ==
    [version |-> settings.version,
     home |-> settings.home,
     root |-> settings.root,
     config_file |-> settings.config_file,
     lock_file |-> settings.config_file]

\* Settings::lock: the LockedSettings of some Settings.
SettingsLock(settings) ==
    [version |-> settings.version,
     home |-> settings.home,
     root |-> settings.root,
     config_file |-> settings.config_file,
     lock_file |-> settings.lock_file]

\* A comparison that forgets the lock file's location.
SettingsEqButLockFile(settings, other) ==
    /\ settings.version = other.version
    /\ settings.home = other.home
    /\ settings.root = other.root
    /\ settings.config_file = other.config_file

\* impl PartialEq<LockedSettings> for Settings
SettingsEq(settings, other) ==
    /\ settings.version = other.version
    /\ settings.home = other.home
    /\ settings.root = other.root
    /\ settings.config_file = other.config_file
    /\ settings.lock_file = other.lock_file

TestSettings ==
    [version |-> "0.5.0",
     home |-> <<"/">>,
     root |-> <<"/", "root">>,
     config_file |-> <<"/", "root", "/", "plugins.toml">>,
     lock_file |-> <<"/", "root", "/", "plugins.lock">>]

NoUrl == [host |-> None, segs |-> <<>>]

Git(url, reference) ==
    [kind |-> "Git", url |-> url, reference |-> reference, directory |-> <<>>]

Remote(url) ==
    [kind |-> "Remote", url |-> url, reference |-> None, directory |-> <<>>]

Local(directory) ==
    [kind |-> "Local", url |-> NoUrl, reference |-> None, directory |-> directory]

Tag(name) == [kind |-> "Tag", name |-> name]

Branch(name) == [kind |-> "Branch", name |-> name]

Revision(name) == [kind |-> "Revision", name |-> name]

PlugUrl == [host |-> Some("github.com"), segs |-> <<"plug">>]

FileUrl == [host |-> Some("host.io"), segs |-> <<"test", ".html">>]

LocalDir == <<"/", "local">>

\* A manifest with one more source than the pool has threads: plugin i is
\* the local directory WideDirs[i], of which only the last exists.
WideDirs ==
    <<<<"/", "w1">>, <<"/", "w2">>, <<"/", "w3">>, <<"/", "w4">>, <<"/", "w5">>,
      <<"/", "w6">>, <<"/", "w7">>, <<"/", "w8">>, LocalDir>>

WideNames == <<"n1", "n2", "n3", "n4", "n5", "n6", "n7", "n8", "n9">>

WideSources == {Local(WideDirs[i]) : i \in 1..Len(WideDirs)}

\* The sources of the model's manifests.
AllSources ==
    {Git(PlugUrl, None), Git(PlugUrl, Some(Tag("v1"))), Remote(FileUrl), Local(LocalDir)}
        \cup WideSources

\* The disk before the first run: the local plugin directory with one file.
InitialDisk ==
    [dirs |-> {LocalDir},
     files |-> (PathJoin(LocalDir, <<"other", ".txt">>) :>
                   [content |-> "complete", mtime |-> 0]),
     head |-> <<>>,
     clock |-> 1]

\* Names of the plugins by manifest position.
PluginNames == <<"p3", "p0", "p4", "p1", "p5", "p2">>

TxtPattern == <<Lit("*"), Lit(".txt")>>

NameHtmlPattern == <<Var("name"), Lit(".html")>>

MissingPattern == <<Lit("missing")>>

DefaultMatches == <<<<Var("name"), Lit(".txt")>>, TxtPattern, <<Lit("test"), Lit(".html")>>>>

DefaultApply == <<"source">>

DefaultTemplates ==
    <<[name |-> "source",
       value |-> <<Lit("source"), Var("filename")>>,
       each |-> TRUE]>>

\* What a plugin of a manifest may be: its source and its `uses`.
PluginChoices ==
    {[source |-> Git(PlugUrl, None), uses |-> None],
     [source |-> Git(PlugUrl, None), uses |-> Some(<<TxtPattern, NameHtmlPattern>>)],
     [source |-> Git(PlugUrl, Some(Tag("v1"))), uses |-> None],
     [source |-> Remote(FileUrl), uses |-> None],
     [source |-> Local(LocalDir), uses |-> None],
     [source |-> Local(LocalDir), uses |-> Some(<<MissingPattern>>)]}

MkPlugin(i, c) ==
    [name |-> PluginNames[i], source |-> c.source, uses |-> c.uses, apply |-> None]

PluginLists ==
    UNION {{[i \in 1..n |-> MkPlugin(i, choice[i])] : choice \in [1..n -> PluginChoices]} :
           n \in 0..MaxPlugins}

Manifests ==
    {[plugins |-> ps, matches |-> DefaultMatches, apply |-> DefaultApply,
      templates |-> DefaultTemplates] : ps \in PluginLists}

WideManifest ==
    [plugins |-> [i \in 1..Len(WideDirs) |->
                     [name |-> WideNames[i], source |-> Local(WideDirs[i]),
                      uses |-> None, apply |-> None]],
     matches |-> DefaultMatches, apply |-> DefaultApply, templates |-> DefaultTemplates]

\* What the network may do to one request.
NetOutcomes == {"ok", "fail", "cut"}

\* What the network may do while a source is installed: a local source
\* makes no request.
NetOutcomesFor(source) == IF source.kind = "Local" THEN {"ok"} ELSE NetOutcomes

\* ------------------------------------------------------------------------
\* State
\* ------------------------------------------------------------------------

\* Config::lock, the orchestrator.
VARIABLES
    config,     \* the manifest given to Config::lock
    disk,       \* the disk under the root directory
    pc,         \* where the calling thread is in Config::lock
    map,        \* the IndexMap of source to the (index, plugin) pairs that use it
    pool,       \* number of threads of the scoped pool
    queue,      \* the groups submitted to the pool and not yet started
    active,     \* the groups whose task is executing on a pool thread
    task,       \* per group, how far its task is
    chan,       \* the messages sent on the result channel, in arrival order
    recvd,      \* number of messages the calling thread has received
    ret,        \* what Config::lock returned
    installs    \* per source, how many times Source::lock was invoked

orchVars ==
    <<config, disk, pc, map, pool, queue, active, task, chan, recvd, ret, installs>>

\* Plugin::lock on its own.
VARIABLES
    selIn,      \* the arguments of a Plugin::lock call
    selOut      \* its result, once it has been called

selVars == <<selIn, selOut>>

\* Sheldon::run with the lock or the source command.
VARIABLES
    cmd,        \* the command: "lock" or "source"
    relock,     \* the source command's relock flag
    ctx,        \* the settings of this invocation
    cfgFile,    \* the manifest file (its modification time)
    lockFile,   \* the lock file: missing, unparsable, or a written LockedConfig
    clock,      \* the time the next file modification is stamped with
    fpc,        \* where the invocation is
    locked,     \* the LockedConfig held by the flow, once there is one
    toPath,     \* Sheldon::source's to_path flag
    script,     \* the rendered script, once there is one
    events,     \* what the invocation did so far: orchestrator, clean, write
    emitted,    \* the errors reported to the user, in order
    stdout,     \* what was printed to standard output
    exit,       \* the result of the command
    runs,       \* number of invocations so far
    lockBefore  \* the lock file as the invocation found it

flowVars ==
    <<cmd, relock, ctx, cfgFile, lockFile, clock, fpc, locked, toPath, script,
      events, emitted, stdout, exit, runs, lockBefore>>

\* Source::lock called again and again on one source.
VARIABLES
    instSource, \* the source, once there is one
    instDisk,   \* the disk under the root directory
    instLog     \* per call: what the network did, the disk before, the result

instVars == <<instSource, instDisk, instLog>>

\* GitReference::lock called again and again on one open repository.
VARIABLES
    pinRepo,    \* the repository, once there is one
    pins        \* per call: the reference and the result

pinVars == <<pinRepo, pins>>

\* The methods of one LockedConfig: source, to_path, from_path.
VARIABLES
    lcIn,       \* the LockedConfig, once there is one
    lcScript,   \* the result of source()
    lcFile,     \* the file to_path() wrote to
    lcWrote,    \* the result of to_path(): "ok" or "err"
    lcRead      \* the result of from_path() on that file

lcVars == <<lcIn, lcScript, lcFile, lcWrote, lcRead>>

unitVars == <<instVars, pinVars, lcVars>>

vars == <<orchVars, selVars, flowVars, unitVars>>

\* ------------------------------------------------------------------------
\* Config::lock
\* ------------------------------------------------------------------------

\* The loop that builds the map: the groups in order of first use, each with
\* the (index, plugin) pairs of its source in manifest order.  Indices are
\* those of enumerate(), from 0.
RECURSIVE GroupFrom(_, _, _)
GroupFrom(plugins, i, acc) ==
    IF i > Len(plugins) THEN acc
    ELSE LET plugin == plugins[i]
             at == {g \in 1..Len(acc) : acc[g].source = plugin.source}
             entry == [index |-> i - 1, plugin |-> plugin]
         IN  IF at = {}
             THEN GroupFrom(plugins, i + 1,
                            Append(acc, [source |-> plugin.source, plugins |-> <<entry>>]))
             ELSE LET g == CHOOSE g \in at : TRUE
                  IN  GroupFrom(plugins, i + 1,
                                [acc EXCEPT ![g].plugins = Append(@, entry)])

\* A grouping that never merges: one group per plugin.
GroupPerPlugin(plugins) ==
    [i \in 1..Len(plugins) |->
        [source |-> plugins[i].source,
         plugins |-> <<[index |-> i - 1, plugin |-> plugins[i]]>>]]

GroupBySource(plugins) == GroupFrom(plugins, 1, <<>>)

\* sorted_by_key(|(index, _)| *index): a stable sort by index.
RECURSIVE InsertByIndex(_, _)
InsertByIndex(sorted, e) ==
    IF sorted = <<>> THEN <<e>>
    ELSE IF e.index < Head(sorted).index THEN <<e>> \o sorted
    ELSE <<Head(sorted)>> \o InsertByIndex(Tail(sorted), e)

RECURSIVE SortFrom(_, _)
SortFrom(list, acc) ==
    IF list = <<>> THEN acc ELSE SortFrom(Tail(list), InsertByIndex(acc, Head(list)))

\* No sort: the pairs stay in arrival order.
ArrivalOrder(list) == list

SortedByIndex(list) == SortFrom(list, <<>>)

\* The LockedConfig that Config::lock assembles.
LockedConfigOf(cfg, settings, plugins) ==
    [settings |-> SettingsLock(settings), templates |-> cfg.templates, plugins |-> plugins]

\* The tail of Config::lock once `count` lists were received: flatten, sort
\* by index, drop the index.
Assemble(cfg, settings, lists) ==
    LET sorted == SortedByIndex(Flatten(lists))
    IN  LockedConfigOf(cfg, settings, [i \in 1..Len(sorted) |-> sorted[i].plugin])

\* ------------------------------------------------------------------------
\* LockedConfig: source, to_path, from_path
\* ------------------------------------------------------------------------

\* self.templates[name]: the template of that name, if there is one.
TemplateNamed(templates, name) ==
    LET at == {i \in 1..Len(templates) : templates[i].name = name}
    IN  IF at = {} THEN None ELSE Some(templates[CHOOSE i \in at : TRUE])

\* The fragments of an each-template: one per filename, each followed by a
\* newline.  kind is "ok" or "err".
RECURSIVE RenderEach(_, _, _)
RenderEach(template, data, filenames) ==
    IF filenames = <<>> THEN [kind |-> "ok", text |-> <<>>, err |-> <<>>]
    ELSE LET r == RenderTemplate(template.value,
                                 [root |-> data.root, name |-> data.name,
                                  directory |-> data.directory,
                                  filename |-> Head(filenames)])
             rest == RenderEach(template, data, Tail(filenames))
         IN  IF ~r.ok
             THEN [kind |-> "err", text |-> <<>>,
                   err |-> Error("failed to render template", <<template.name>>)]
             ELSE IF rest.kind # "ok" THEN rest
             ELSE [kind |-> "ok", text |-> r.text \o <<"\n">> \o rest.text, err |-> <<>>]

\* What one name of a plugin's apply list adds to the script.  Indexing the
\* templates with a name they do not hold panics.
RenderApplied(lc, plugin, name) ==
    LET t == TemplateNamed(lc.templates, name)
        data == [root |-> lc.settings.root, name |-> <<plugin.name>>,
                 directory |-> plugin.directory]
        r == RenderTemplate(t[1].value, data)
    IN  IF ~IsSome(t) THEN [kind |-> "panic", text |-> <<>>, err |-> <<>>]
        ELSE IF t[1].each THEN RenderEach(t[1], data, plugin.filenames)
        ELSE IF ~r.ok
        THEN [kind |-> "err", text |-> <<>>,
              err |-> Error("failed to render template", <<name>>)]
        ELSE [kind |-> "ok", text |-> r.text \o <<"\n">>, err |-> <<>>]

\* The loop over the names of one plugin's apply list.
RECURSIVE RenderPlugin(_, _, _)
RenderPlugin(lc, plugin, names) ==
    IF names = <<>> THEN [kind |-> "ok", text |-> <<>>, err |-> <<>>]
    ELSE LET r == RenderApplied(lc, plugin, Head(names))
             rest == RenderPlugin(lc, plugin, Tail(names))
         IN  IF r.kind # "ok" THEN r
             ELSE IF rest.kind # "ok" THEN rest
             ELSE [kind |-> "ok", text |-> r.text \o rest.text, err |-> <<>>]

\* A loop over the locked plugins from the last to the first.
RECURSIVE RenderPluginsReversed(_, _)
RenderPluginsReversed(lc, plugins) ==
    IF plugins = <<>> THEN [kind |-> "ok", text |-> <<>>, err |-> <<>>]
    ELSE LET r == RenderPlugin(lc, plugins[Len(plugins)], plugins[Len(plugins)].apply)
             rest == RenderPluginsReversed(lc, SubSeq(plugins, 1, Len(plugins) - 1))
         IN  IF r.kind # "ok" THEN r
             ELSE IF rest.kind # "ok" THEN rest
             ELSE [kind |-> "ok", text |-> r.text \o rest.text, err |-> <<>>]

\* The loop over the locked plugins.
RECURSIVE RenderPlugins(_, _)
RenderPlugins(lc, plugins) ==
    IF plugins = <<>> THEN [kind |-> "ok", text |-> <<>>, err |-> <<>>]
    ELSE LET r == RenderPlugin(lc, Head(plugins), Head(plugins).apply)
             rest == RenderPlugins(lc, Tail(plugins))
         IN  IF r.kind # "ok" THEN r
             ELSE IF rest.kind # "ok" THEN rest
             ELSE [kind |-> "ok", text |-> r.text \o rest.text, err |-> <<>>]

\* register_template_string fails on a template with an unclosed tag.
Compiles(template) == \A i \in 1..Len(template.value) : template.value[i].val # "{{"

\* LockedConfig::source: the script, an error, or a panic.
LockedConfigSource(lc) ==
    LET bad == {i \in 1..Len(lc.templates) : ~Compiles(lc.templates[i])}
    IN  IF bad # {}
        THEN [kind |-> "err", text |-> <<>>,
              err |-> Error("failed to compile template",
                            <<lc.templates[CHOOSE i \in bad : \A j \in bad : i <= j].name>>)]
        ELSE RenderPlugins(lc, lc.plugins)

\* A TOML value: a string, a boolean or an array of strings.
TomlString(text) == [type |-> "string", text |-> text, items |-> <<>>]

TomlBool(b) ==
    [type |-> "boolean", text |-> <<IF b THEN "true" ELSE "false">>, items |-> <<>>]

TomlArray(items) == [type |-> "array", text |-> <<>>, items |-> items]

\* A line of a TOML document: `key = value`, `[table]` or `[[array]]`.
PairLine(key, value) == [line |-> "pair", path |-> <<>>, key |-> key, value |-> value]

TableLine(path) == [line |-> "table", path |-> path, key |-> "", value |-> TomlString(<<>>)]

ArrayLine(path) == [line |-> "array", path |-> path, key |-> "", value |-> TomlString(<<>>)]

\* The text of a template: a variable is written between braces.
RECURSIVE TemplateText(_)
TemplateText(value) ==
    IF value = <<>> THEN <<>>
    ELSE (IF Head(value).var THEN <<"{{", Head(value).val, "}}">> ELSE <<Head(value).val>>)
         \o TemplateText(Tail(value))

\* The parts of a template text.
RECURSIVE TemplateParts(_)
TemplateParts(text) ==
    IF text = <<>> THEN <<>>
    ELSE IF Len(text) >= 3 /\ text[1] = "{{" /\ text[3] = "}}"
    THEN <<Var(text[2])>> \o TemplateParts(SubSeq(text, 4, Len(text)))
    ELSE <<Lit(text[1])>> \o TemplateParts(Tail(text))

\* The flattened settings: five root-level strings.
TomlSettings(settings) ==
    <<PairLine("version", TomlString(<<settings.version>>)),
      PairLine("home", TomlString(settings.home)),
      PairLine("root", TomlString(settings.root)),
      PairLine("config_file", TomlString(settings.config_file)),
      PairLine("lock_file", TomlString(settings.lock_file))>>

\* The templates: a table per name, or the empty table.
TomlTemplates(templates) ==
    IF templates = <<>> THEN <<TableLine(<<"templates">>)>>
    ELSE Flatten([i \in 1..Len(templates) |->
            <<TableLine(<<"templates", templates[i].name>>),
              PairLine("value", TomlString(TemplateText(templates[i].value))),
              PairLine("each", TomlBool(templates[i].each))>>])

\* One locked plugin: an element of the array of tables.
TomlPlugin(plugin) ==
    <<ArrayLine(<<"plugins">>),
      PairLine("name", TomlString(<<plugin.name>>)),
      PairLine("directory", TomlString(plugin.directory)),
      PairLine("filenames", TomlArray(plugin.filenames)),
      PairLine("apply", TomlArray([i \in 1..Len(plugin.apply) |-> <<plugin.apply[i]>>]))>>

\* A document with the plugins in reverse order.
SerializedReversed(lc) ==
    TomlSettings(lc.settings) \o TomlTemplates(lc.templates)
    \o Flatten([i \in 1..Len(lc.plugins) |->
                   TomlPlugin(lc.plugins[Len(lc.plugins) + 1 - i])])

\* What LockedConfig::to_path writes, toml::to_string(&self): the settings,
\* the templates, the plugins, in the order of the struct's fields.
Serialized(lc) ==
    TomlSettings(lc.settings) \o TomlTemplates(lc.templates)
    \o Flatten([i \in 1..Len(lc.plugins) |-> TomlPlugin(lc.plugins[i])])

\* toml's serializer writes an empty array as a value, and refuses a value
\* once a table was written: a LockedConfig without plugins does not
\* serialize.
Serializes(lc) == lc.plugins # <<>>

\* toml::from_str::<LockedConfig>: the settings from the root of the
\* document, a template per table under `templates` and a plugin per element
\* of `plugins`, in the order of the document.  Fails when a field is
\* missing.
ParseToml(doc) ==
    LET indices == [i \in 1..Len(doc) |-> i]
        end(i) == LET hs == {j \in (i + 1)..Len(doc) : doc[j].line # "pair"}
                  IN  IF hs = {} THEN Len(doc) + 1
                      ELSE CHOOSE j \in hs : \A k \in hs : j <= k
        at(i, key) == {j \in (i + 1)..(end(i) - 1) : doc[j].key = key}
        has(i, key, type) ==
            \E j \in at(i, key) : doc[j].value.type = type
        get(i, key) == doc[CHOOSE j \in at(i, key) : TRUE].value
        isTemplate(i) ==
            doc[i].line = "table" /\ Len(doc[i].path) = 2 /\ doc[i].path[1] = "templates"
        isPlugin(i) == doc[i].line = "array" /\ doc[i].path = <<"plugins">>
        ts == SelectSeq(indices, isTemplate)
        ps == SelectSeq(indices, isPlugin)
        complete ==
            /\ \A key \in {"version", "home", "root", "config_file", "lock_file"} :
                  has(0, key, "string")
            /\ \E i \in 1..Len(doc) : doc[i].line = "table" /\ doc[i].path[1] = "templates"
            /\ ps # <<>>
            /\ \A k \in 1..Len(ts) : has(ts[k], "value", "string") /\ has(ts[k], "each", "boolean")
            /\ \A k \in 1..Len(ps) :
                  /\ has(ps[k], "name", "string")
                  /\ has(ps[k], "directory", "string")
                  /\ has(ps[k], "filenames", "array")
                  /\ has(ps[k], "apply", "array")
    IN  IF ~complete THEN [ok |-> FALSE, locked |-> <<>>]
        ELSE [ok |-> TRUE,
              locked |->
                [settings |-> [version |-> get(0, "version").text[1],
                               home |-> get(0, "home").text,
                               root |-> get(0, "root").text,
                               config_file |-> get(0, "config_file").text,
                               lock_file |-> get(0, "lock_file").text],
                 templates |-> [k \in 1..Len(ts) |->
                                  [name |-> doc[ts[k]].path[2],
                                   value |-> TemplateParts(get(ts[k], "value").text),
                                   each |-> get(ts[k], "each").text = <<"true">>]],
                 plugins |-> [k \in 1..Len(ps) |->
                                [name |-> get(ps[k], "name").text[1],
                                 directory |-> get(ps[k], "directory").text,
                                 filenames |-> get(ps[k], "filenames").items,
                                 apply |-> LET names == get(ps[k], "apply").items
                                           IN  [i \in 1..Len(names) |-> names[i][1]]]],
                 errors |-> <<>>]]

\* LockedConfig::from_path on a lock file: a file that is missing or does
\* not parse is an error.
FromPath(file) ==
    IF file.kind # "locked" THEN [ok |-> FALSE, locked |-> <<>>]
    ELSE ParseToml(file.content)

\* LockedConfig::verify: the settings of the lock file are the current ones.
Verify(lc, settings) == SettingsEq(settings, lc.settings)

\* PathExt::newer_than on two files with modification times.
NewerThan(file, other) == other.kind # "missing" /\ file.mtime > other.mtime

NewTask ==
    [st |-> "new", source |-> None, locked |-> <<>>, next |-> 1, wrote |-> {},
     tried |-> <<>>]

OkMsg(g, list) == [ok |-> TRUE, group |-> g, list |-> list, err |-> <<>>]

ErrMsg(g, err) == [ok |-> FALSE, group |-> g, list |-> <<>>, err |-> err]

\* Config::lock up to the creation of the pool.  An empty manifest returns
\* at once.
LockBegin ==
    /\ pc = "start"
    /\ LET m == GroupBySource(config.plugins)
           count == Len(m)
       IN  /\ map' = m
           /\ IF count = 0
              THEN /\ ret' = [kind |-> "ok", err |-> <<>>,
                              locked |-> Some(LockedConfigOf(config, TestSettings, <<>>))]
                   /\ pc' = "done"
                   /\ UNCHANGED <<pool, task>>
              ELSE /\ pool' = Min(count, MAX_THREADS)
                   /\ task' = [g \in 1..count |-> NewTask]
                   /\ pc' = "submit"
                   /\ UNCHANGED ret
    /\ UNCHANGED <<config, disk, queue, active, chan, recvd, installs>>
    /\ UNCHANGED <<selVars, flowVars, unitVars>>

\* scoped.execute: hand the task of the next group to the pool.
Execute ==
    /\ pc = "submit"
    /\ LET g == CHOOSE g \in 1..Len(map) :
                   /\ task[g].st = "new"
                   /\ \A h \in 1..(g - 1) : task[h].st # "new"
       IN  /\ queue' = Append(queue, g)
           /\ task' = [task EXCEPT ![g].st = "queued"]
           /\ pc' = IF g = Len(map) THEN "join" ELSE "submit"
    /\ UNCHANGED <<config, disk, map, pool, active, chan, recvd, ret, installs>>
    /\ UNCHANGED <<selVars, flowVars, unitVars>>

\* A pool that starts a submitted task whether or not a thread is free.
TaskStartUnbounded ==
    /\ queue # <<>>
    /\ active' = active \cup {Head(queue)}
    /\ task' = [task EXCEPT ![Head(queue)].st = "running"]
    /\ queue' = Tail(queue)
    /\ UNCHANGED <<config, disk, pc, map, pool, chan, recvd, ret, installs>>
    /\ UNCHANGED <<selVars, flowVars, unitVars>>

\* A free pool thread takes the oldest submitted task.
TaskStart ==
    /\ queue # <<>>
    /\ Cardinality(active) < pool
    /\ active' = active \cup {Head(queue)}
    /\ task' = [task EXCEPT ![Head(queue)].st = "running"]
    /\ queue' = Tail(queue)
    /\ UNCHANGED <<config, disk, pc, map, pool, chan, recvd, ret, installs>>
    /\ UNCHANGED <<selVars, flowVars, unitVars>>

\* A task that ends without a message when the install of its source fails.
TaskInstallSilent(g) ==
    /\ g \in active
    /\ task[g].st = "running"
    /\ \E net \in NetOutcomesFor(map[g].source) :
          LET source == map[g].source
              r == SourceLock(source, TestSettings, disk, net)
          IN  /\ disk' = r.disk
              /\ installs' = [installs EXCEPT ![source] = @ + 1]
              /\ IF r.ok
                 THEN /\ task' = [task EXCEPT ![g].st = "installed",
                                              ![g].source = Some(r.locked),
                                              ![g].wrote = r.wrote]
                      /\ UNCHANGED <<chan, active>>
                 ELSE /\ task' = [task EXCEPT ![g].st = "sent", ![g].wrote = r.wrote]
                      /\ active' = active \ {g}
                      /\ UNCHANGED chan
    /\ UNCHANGED <<config, pc, map, pool, queue, recvd, ret>>
    /\ UNCHANGED <<selVars, flowVars, unitVars>>

\* The task of group g installs its source; a failure is sent as the
\* message of the group and ends the task.
TaskInstall(g) ==
    /\ g \in active
    /\ task[g].st = "running"
    /\ \E net \in NetOutcomesFor(map[g].source) :
          LET source == map[g].source
              r == SourceLock(source, TestSettings, disk, net)
          IN  /\ disk' = r.disk
              /\ installs' = [installs EXCEPT ![source] = @ + 1]
              /\ IF r.ok
                 THEN /\ task' = [task EXCEPT ![g].st = "installed",
                                              ![g].source = Some(r.locked),
                                              ![g].wrote = r.wrote]
                      /\ UNCHANGED <<chan, active>>
                 ELSE /\ task' = [task EXCEPT ![g].st = "sent", ![g].wrote = r.wrote]
                      /\ chan' = Append(chan,
                             ErrMsg(g, Ctx(r.err, "failed to install source",
                                           SourceName(source))))
                      /\ active' = active \ {g}
    /\ UNCHANGED <<config, pc, map, pool, queue, recvd, ret>>
    /\ UNCHANGED <<selVars, flowVars, unitVars>>

\* A task that skips a plugin whose selection failed and goes on with the
\* rest of its group.
TaskLockPluginSkipFailed(g) ==
    /\ g \in active
    /\ task[g].st = "installed"
    /\ LET e == map[g].plugins[task[g].next]
           r == PluginLock(e.plugin, TestSettings, task[g].source[1],
                           config.matches, config.apply, FsPaths(disk))
           list == IF r.kind = "ok"
                   THEN Append(task[g].locked, [index |-> e.index, plugin |-> r.locked])
                   ELSE task[g].locked
           tried == Append(task[g].tried, e.index)
       IN  IF task[g].next = Len(map[g].plugins)
           THEN /\ task' = [task EXCEPT ![g].st = "sent", ![g].locked = list,
                                        ![g].tried = tried]
                /\ chan' = Append(chan, OkMsg(g, list))
                /\ active' = active \ {g}
           ELSE /\ task' = [task EXCEPT ![g].locked = list, ![g].next = @ + 1,
                                        ![g].tried = tried]
                /\ UNCHANGED <<chan, active>>
    /\ UNCHANGED <<config, disk, pc, map, pool, queue, recvd, ret, installs>>
    /\ UNCHANGED <<selVars, flowVars, unitVars>>

\* The task of group g locks its next plugin.  The first failure, or the
\* list once the last plugin is locked, is sent as the message of the group.
TaskLockPlugin(g) ==
    /\ g \in active
    /\ task[g].st = "installed"
    /\ LET e == map[g].plugins[task[g].next]
           r == PluginLock(e.plugin, TestSettings, task[g].source[1],
                           config.matches, config.apply, FsPaths(disk))
           list == Append(task[g].locked, [index |-> e.index, plugin |-> r.locked])
           tried == Append(task[g].tried, e.index)
       IN  IF r.kind = "panic"
           THEN /\ task' = [task EXCEPT ![g].st = "panicked", ![g].tried = tried]
                /\ active' = active \ {g}
                /\ UNCHANGED chan
           ELSE IF r.kind = "err"
           THEN /\ task' = [task EXCEPT ![g].st = "sent", ![g].tried = tried]
                /\ chan' = Append(chan,
                       ErrMsg(g, Ctx(r.err, "failed to install plugin", <<e.plugin.name>>)))
                /\ active' = active \ {g}
           ELSE IF task[g].next = Len(map[g].plugins)
           THEN /\ task' = [task EXCEPT ![g].st = "sent", ![g].locked = list,
                                        ![g].tried = tried]
                /\ chan' = Append(chan, OkMsg(g, list))
                /\ active' = active \ {g}
           ELSE /\ task' = [task EXCEPT ![g].locked = list, ![g].next = @ + 1,
                                        ![g].tried = tried]
                /\ UNCHANGED <<chan, active>>
    /\ UNCHANGED <<config, disk, pc, map, pool, queue, recvd, ret, installs>>
    /\ UNCHANGED <<selVars, flowVars, unitVars>>

\* A join that does not wait for the tasks.
JoinWithoutWaiting ==
    /\ pc = "join"
    /\ pc' = "collect"
    /\ UNCHANGED <<config, disk, map, pool, queue, active, task, chan, recvd, ret, installs>>
    /\ UNCHANGED <<selVars, flowVars, unitVars>>

\* scoped.join_all() and the end of the scope: wait until no task is queued
\* or executing.  A task that panicked makes the calling thread panic.
JoinAll ==
    /\ pc = "join"
    /\ queue = <<>>
    /\ active = {}
    /\ pc' = IF \E g \in DOMAIN task : task[g].st = "panicked" THEN "panicked" ELSE "collect"
    /\ UNCHANGED <<config, disk, map, pool, queue, active, task, chan, recvd, ret, installs>>
    /\ UNCHANGED <<selVars, flowVars, unitVars>>

\* A collection that reports the error of the failed group that comes first
\* in the manifest instead of the one that arrived first.
ReceiveManifestFirst ==
    /\ pc = "collect"
    /\ recvd < Len(chan)
    /\ LET failed == {i \in 1..Len(chan) : ~chan[i].ok}
           lists == [i \in 1..Len(chan) |-> chan[i].list]
       IN  /\ recvd' = Len(chan)
           /\ pc' = "done"
           /\ IF failed # {}
              THEN LET i == CHOOSE i \in failed :
                                \A j \in failed : chan[i].group <= chan[j].group
                   IN  ret' = [kind |-> "err", err |-> chan[i].err, locked |-> None]
              ELSE ret' = [kind |-> "ok", err |-> <<>>,
                           locked |-> Some(Assemble(config, TestSettings, lists))]
    /\ UNCHANGED <<config, disk, map, pool, queue, active, task, chan, installs>>
    /\ UNCHANGED <<selVars, flowVars, unitVars>>

\* A collection that receives all count messages before it returns the
\* error that arrived first.
ReceiveDrain ==
    /\ pc = "collect"
    /\ recvd < Len(chan)
    /\ LET lists == [i \in 1..(recvd + 1) |-> chan[i].list]
           failed == {i \in 1..(recvd + 1) : ~chan[i].ok}
       IN  /\ recvd' = recvd + 1
           /\ IF recvd + 1 < Len(map)
              THEN UNCHANGED <<ret, pc>>
              ELSE /\ pc' = "done"
                   /\ IF failed # {}
                      THEN LET i == CHOOSE i \in failed : \A j \in failed : i <= j
                           IN  ret' = [kind |-> "err", err |-> chan[i].err, locked |-> None]
                      ELSE ret' = [kind |-> "ok", err |-> <<>>,
                                   locked |-> Some(Assemble(config, TestSettings, lists))]
    /\ UNCHANGED <<config, disk, map, pool, queue, active, task, chan, installs>>
    /\ UNCHANGED <<selVars, flowVars, unitVars>>

\* rx.iter().take(count).collect::<Result<Vec<_>>>(): receive the next
\* message; an error ends the collection and is returned, the count-th list
\* ends it and the LockedConfig is assembled.
Receive ==
    /\ pc = "collect"
    /\ recvd < Len(chan)
    /\ LET m == chan[recvd + 1]
           lists == [i \in 1..(recvd + 1) |-> chan[i].list]
       IN  /\ recvd' = recvd + 1
           /\ IF ~m.ok
              THEN /\ ret' = [kind |-> "err", err |-> m.err, locked |-> None]
                   /\ pc' = "done"
              ELSE IF recvd + 1 = Len(map)
              THEN /\ ret' = [kind |-> "ok", err |-> <<>>,
                              locked |-> Some(Assemble(config, TestSettings, lists))]
                   /\ pc' = "done"
              ELSE UNCHANGED <<ret, pc>>
    /\ UNCHANGED <<config, disk, map, pool, queue, active, task, chan, installs>>
    /\ UNCHANGED <<selVars, flowVars, unitVars>>

NoReturn == [kind |-> "none", err |-> <<>>, locked |-> None]

InitOrch ==
    /\ config \in Manifests
    /\ disk = InitialDisk
    /\ pc = "start"
    /\ map = <<>>
    /\ pool = 0
    /\ queue = <<>>
    /\ active = {}
    /\ task = <<>>
    /\ chan = <<>>
    /\ recvd = 0
    /\ ret = NoReturn
    /\ installs = [s \in AllSources |-> 0]

\* Config::lock is not running.
IdleOrch ==
    /\ config = [plugins |-> <<>>, matches |-> <<>>, apply |-> <<>>, templates |-> <<>>]
    /\ disk = EmptyDisk
    /\ pc = "idle"
    /\ map = <<>>
    /\ pool = 0
    /\ queue = <<>>
    /\ active = {}
    /\ task = <<>>
    /\ chan = <<>>
    /\ recvd = 0
    /\ ret = NoReturn
    /\ installs = [s \in AllSources |-> 0]

IdleSel == selIn = <<>> /\ selOut = <<>>

NoExit == [kind |-> "none", err |-> <<>>]

MissingFile == [kind |-> "missing", mtime |-> 0, content |-> <<>>]

\* No command is running.
IdleFlow ==
    /\ cmd = "none"
    /\ relock = FALSE
    /\ ctx = TestSettings
    /\ cfgFile = [kind |-> "file", mtime |-> 0]
    /\ lockFile = MissingFile
    /\ clock = 0
    /\ fpc = "idle"
    /\ locked = None
    /\ toPath = FALSE
    /\ script = None
    /\ events = <<>>
    /\ emitted = <<>>
    /\ stdout = <<>>
    /\ exit = NoExit
    /\ runs = 0
    /\ lockBefore = MissingFile

\* None of the single operations is being exercised.
IdleInst == instSource = None /\ instDisk = EmptyDisk /\ instLog = <<>>

IdlePin == pinRepo = None /\ pins = <<>>

IdleLocked ==
    /\ lcIn = None
    /\ lcScript = None
    /\ lcFile = MissingFile
    /\ lcWrote = "none"
    /\ lcRead = None

IdleUnits == IdleInst /\ IdlePin /\ IdleLocked

Init == InitOrch /\ IdleSel /\ IdleFlow /\ IdleUnits

Next ==
    \/ LockBegin
    \/ Execute
    \/ TaskStart
    \/ \E g \in active : TaskInstall(g)
    \/ \E g \in active : TaskLockPlugin(g)
    \/ JoinAll
    \/ Receive

Spec == Init /\ [][Next]_vars

\* ------------------------------------------------------------------------
\* Properties of Config::lock (specification Spec)
\* ------------------------------------------------------------------------

Returned == pc = "done"

SourcesUsed == {config.plugins[i].source : i \in 1..Len(config.plugins)}

\* The positions of the messages on the channel that are errors.
Failed == {i \in 1..Len(chan) : ~chan[i].ok}

\* C1: a successful Config::lock returns one locked plugin per manifest
\* plugin, with the manifest's names in the manifest's order, whatever the
\* order in which the groups' messages arrived.
C1_ManifestOrder ==
    (Returned /\ ret.kind = "ok") =>
        LET out == ret.locked[1].plugins
        IN  /\ Len(out) = Len(config.plugins)
            /\ \A i \in 1..Len(out) : out[i].name = config.plugins[i].name

\* A successful lock of three plugins where the first and the last share a
\* source and the message of the second group arrived before the first's.
C1_Witness ==
    /\ Returned
    /\ ret.kind = "ok"
    /\ Len(config.plugins) = 3
    /\ config.plugins[1].source = config.plugins[3].source
    /\ config.plugins[1].source # config.plugins[2].source
    /\ chan[1].group = 2

\* C2: Source::lock is invoked at most once per source at any time, and by
\* the time Config::lock returns exactly once for every source of the
\* manifest and never for another one.
C2_InstallOncePerSource ==
    /\ \A s \in AllSources : installs[s] <= 1
    /\ Returned =>
          \A s \in AllSources : installs[s] = IF s \in SourcesUsed THEN 1 ELSE 0

\* A finished lock in which two plugins share a source.
C2_Witness ==
    /\ Returned
    /\ \E i, j \in 1..Len(config.plugins) :
          /\ i # j
          /\ config.plugins[i].source = config.plugins[j].source
          /\ installs[config.plugins[i].source] = 1

\* C3: if a message on the channel is an error, Config::lock returns no
\* LockedConfig but the error that arrived first.
C3_FirstArrivedError ==
    (Returned /\ Failed # {}) =>
        /\ ret.kind = "err"
        /\ ret.locked = None
        /\ \E i \in Failed :
              /\ \A j \in Failed : i <= j
              /\ ret.err = chan[i].err

\* Two groups failed, the later group of the manifest sent its error first,
\* and that error, not the one of the earlier group, is returned.
C3_Witness ==
    /\ Returned
    /\ \E i, j \in Failed :
          /\ i < j
          /\ chan[i].group > chan[j].group
          /\ \A k \in Failed : i <= k
          /\ ret.err = chan[i].err
          /\ ret.err # chan[j].err

\* C4: when Config::lock returns, with a LockedConfig or with an error,
\* every group's task has run to its end and has sent its message.
C4_AllTasksComplete ==
    Returned =>
        /\ queue = <<>>
        /\ active = {}
        /\ \A g \in DOMAIN task : task[g].st = "sent"
        /\ Len(chan) = Len(map)
        /\ \A g \in 1..Len(map) : \E i \in 1..Len(chan) : chan[i].group = g

\* A lock that returned an error although a group whose message arrived
\* after the error installed its source and locked its plugins.
C4_Witness ==
    /\ Returned
    /\ ret.kind = "err"
    /\ \E i, j \in 1..Len(chan) : i < j /\ ~chan[i].ok /\ chan[j].ok

FirstFailed == CHOOSE i \in Failed : \A j \in Failed : i <= j

GroupIndices(g) == [k \in 1..Len(map[g].plugins) |-> map[g].plugins[k].index]

\* The positions on the channel of the messages of group g.
MessagesOf(g) == {i \in 1..Len(chan) : chan[i].group = g}

IsPrefix(s, t) == Len(s) <= Len(t) /\ \A k \in 1..Len(s) : s[k] = t[k]

\* C22: the task of a group runs no file selection before its source is
\* installed, and none at all if the install failed, in which case it sends
\* the install error as its only message.  After the install it locks the
\* plugins of the group one by one in manifest order; the first plugin whose
\* selection fails is the last one tried, and the error naming it is the
\* group's only message, without any list.
C22_GroupTask ==
    \A g \in DOMAIN task :
        LET t == task[g]
            msgs == MessagesOf(g)
        IN  /\ IsPrefix(t.tried, GroupIndices(g))
            /\ \A k \in 1..Len(t.tried) : k < Len(t.tried) => t.locked[k].index = t.tried[k]
            /\ t.st \in {"new", "queued", "running"} => t.tried = <<>> /\ msgs = {}
            /\ t.st = "installed" => IsSome(t.source) /\ msgs = {}
            /\ t.st = "sent" =>
                  /\ Cardinality(msgs) = 1
                  /\ LET m == chan[CHOOSE i \in msgs : TRUE]
                     IN  IF ~IsSome(t.source)
                         THEN /\ t.tried = <<>>
                              /\ ~m.ok /\ m.list = <<>>
                              /\ m.err[1] = [msg |-> "failed to install source",
                                              arg |-> SourceName(map[g].source)]
                         ELSE IF m.ok
                         THEN /\ t.tried = GroupIndices(g)
                              /\ [k \in 1..Len(m.list) |-> m.list[k].index] = GroupIndices(g)
                         ELSE /\ t.tried # <<>>
                              /\ Len(t.locked) = Len(t.tried) - 1
                              /\ m.list = <<>>
                              /\ m.err[1] =
                                    [msg |-> "failed to install plugin",
                                     arg |-> <<config.plugins[t.tried[Len(t.tried)] + 1].name>>]

\* A group of at least two plugins whose first plugin failed: the second
\* was not tried.  Another group's install failed and tried no plugin.
C22_Witness ==
    /\ Returned
    /\ \E g \in DOMAIN task :
          /\ Len(map[g].plugins) >= 2
          /\ Len(task[g].tried) = 1
          /\ IsSome(task[g].source)
    /\ \E g \in DOMAIN task : ~IsSome(task[g].source) /\ task[g].tried = <<>>

\* Some step of Config::lock is possible: the calling thread can go on, a
\* free thread can start a submitted task, or a task that is executing can
\* install its source or lock its next plugin.
CanStep ==
    \/ ENABLED LockBegin
    \/ ENABLED Execute
    \/ ENABLED TaskStart
    \/ \E g \in active : ENABLED TaskInstall(g)
    \/ \E g \in active : task[g].st = "installed"
    \/ ENABLED JoinAll
    \/ ENABLED Receive

\* The steps the task of group g has left at most.
TaskLeft(g) ==
    LET n == Len(map[g].plugins)
    IN  CASE task[g].st = "new" -> n + 3
          [] task[g].st = "queued" -> n + 2
          [] task[g].st = "running" -> n + 1
          [] task[g].st = "installed" -> n - task[g].next + 1
          [] OTHER -> 0

RECURSIVE TasksLeft(_)
TasksLeft(g) == IF g = 0 THEN 0 ELSE TaskLeft(g) + TasksLeft(g - 1)

\* The steps the calling thread has left at most once the tasks are done.
CallerLeft ==
    CASE pc = "submit" -> Len(map) + 3
      [] pc = "join" -> Len(map) + 2
      [] pc = "collect" -> Len(map) - recvd + 1
      [] OTHER -> 0

\* A bound on the steps Config::lock has left.
Remaining ==
    IF pc = "start"
    THEN Len(config.plugins) * (Len(config.plugins) + 3) + Len(config.plugins) + 4
    ELSE TasksLeft(Len(task)) + CallerLeft

\* Every task has sent at most one message, and a task that has ended has
\* sent one.
OneMessagePerTask ==
    \A g \in DOMAIN task :
        /\ Cardinality(MessagesOf(g)) <= 1
        /\ task[g].st = "sent" <=> Cardinality(MessagesOf(g)) = 1

\* The lock of an empty manifest returned a LockedConfig without plugins and
\* created neither pool nor task nor message.
EmptyWithoutPool ==
    (Returned /\ config.plugins = <<>>) =>
        /\ ret.kind = "ok"
        /\ ret.locked[1].plugins = <<>>
        /\ pool = 0
        /\ task = <<>>
        /\ chan = <<>>

\* C26: Config::lock returns for every manifest: short of its return some
\* step is always possible, in particular the calling thread never waits
\* for a message that no task will send, and every step lowers the bound
\* on the steps that are left.  Each task sends exactly one message, a list
\* or an error; and for an empty manifest Config::lock returns a
\* LockedConfig without plugins and without creating a pool.
C26_Terminates ==
    /\ [](Returned \/ CanStep)
    /\ [][Remaining' < Remaining]_vars
    /\ []OneMessagePerTask
    /\ []EmptyWithoutPool

\* A lock of several groups that returned after each task had sent its one
\* message, one of them an error.
C26_Witness ==
    /\ Returned
    /\ Len(map) >= 2
    /\ Len(chan) = Len(map)
    /\ OneMessagePerTask
    /\ Failed # {}

\* The lock of the empty manifest returned.
C26_WitnessEmpty ==
    /\ Returned
    /\ config.plugins = <<>>
    /\ ret.kind = "ok"
    /\ pool = 0

\* Where Source::lock puts a source: the clone directory, the download
\* file, or nowhere.
InstallTarget(source) ==
    IF source.kind = "Local" \/ ~IsSome(source.url.host) THEN None
    ELSE IF source.kind = "Git" THEN Some(GitDirectory(TestSettings, source.url))
    ELSE Some(RemoteFilename(TestSettings, source.url))

\* The paths the task of a group has written.
WrittenBy(g) == {w.path : w \in task[g].wrote}

\* C19: no path is written by the tasks of two groups, and two tasks that
\* are installing their sources at the same time install them to different
\* places.
C19_DisjointWrites ==
    \A g, h \in DOMAIN task :
        g # h =>
            /\ WrittenBy(g) \cap WrittenBy(h) = {}
            /\ (g \in active /\ h \in active
                  /\ task[g].st = "running" /\ task[h].st = "running"
                  /\ IsSome(InstallTarget(map[g].source))) =>
                   InstallTarget(map[g].source) # InstallTarget(map[h].source)

\* What does hold: the tasks of two groups write to the same path only when
\* both are git sources of one URL with different references.
C19_DisjointUnlessSameUrl ==
    \A g, h \in DOMAIN task :
        (g # h /\ WrittenBy(g) \cap WrittenBy(h) # {}) =>
            /\ map[g].source.kind = "Git"
            /\ map[h].source.kind = "Git"
            /\ map[g].source.url = map[h].source.url
            /\ map[g].source.reference # map[h].source.reference

\* One task cloned a repository and the task of another group reset the
\* same directory to its tag; both groups were locked.
C19_Witness ==
    /\ Returned
    /\ ret.kind = "ok"
    /\ \E g, h \in DOMAIN task :
          /\ g # h
          /\ Wrote("clone", GitDirectory(TestSettings, PlugUrl)) \in task[g].wrote
          /\ Wrote("reset", GitDirectory(TestSettings, PlugUrl)) \in task[h].wrote

\* ------------------------------------------------------------------------
\* Config::lock of a manifest with more sources than pool threads
\* (specification SpecWide)
\* ------------------------------------------------------------------------

InitWide ==
    /\ config = WideManifest
    /\ disk = InitialDisk
    /\ pc = "start"
    /\ map = <<>>
    /\ pool = 0
    /\ queue = <<>>
    /\ active = {}
    /\ task = <<>>
    /\ chan = <<>>
    /\ recvd = 0
    /\ ret = NoReturn
    /\ installs = [s \in AllSources |-> 0]
    /\ IdleSel /\ IdleFlow /\ IdleUnits

SpecWide == InitWide /\ [][Next]_vars

\* The groups whose task has run to its end.
Executed == {g \in DOMAIN task : task[g].st = "sent"}

\* C20: while Config::lock runs, the tasks executing at once are at most
\* min(number of groups, MAX_THREADS); a task that found no free thread
\* stays submitted, and when Config::lock has joined the pool every group's
\* task has installed its source once and sent its message.
C20_PoolBound ==
    /\ Cardinality(active) <= Min(Len(map), MAX_THREADS)
    /\ \A g \in DOMAIN task :
          /\ g \in active <=> task[g].st \in {"running", "installed"}
          /\ (\E i \in 1..Len(queue) : queue[i] = g) <=> task[g].st = "queued"
    /\ pc \in {"collect", "done"} =>
          /\ Executed = 1..Len(map)
          /\ \A g \in 1..Len(map) : installs[map[g].source] = 1

\* More groups than threads: every thread is busy and the task of the last
\* group waits.
C20_Witness ==
    /\ Len(map) > MAX_THREADS
    /\ Cardinality(active) = MAX_THREADS
    /\ queue = <<Len(map)>>

\* The lock of more groups than threads has returned, the task that waited
\* executed too.
C20_WitnessAll ==
    /\ Returned
    /\ Len(map) > MAX_THREADS
    /\ Executed = 1..Len(map)
    /\ \E i \in 1..Len(chan) : chan[i].ok /\ chan[i].group = Len(map)

\* ------------------------------------------------------------------------
\* Plugin::lock called on its own (specification SpecSel)
\* ------------------------------------------------------------------------

\* All sequences over S of a length from 0 to n.
SeqsUpTo(S, n) == UNION {[1..k -> S] : k \in 0..n}

BadVarPattern == <<Var("nope"), Lit(".txt")>>

BadGlobPattern == <<Lit("["), Lit(".txt")>>

\* The patterns a `uses` or `matches` list of the model is made of.
SelPatterns == {TxtPattern, NameHtmlPattern, MissingPattern, BadVarPattern, BadGlobPattern}

SelDirectory == GitDirectory(TestSettings, PlugUrl)

\* The contents the plugin's directory may have.
SelTrees ==
    {{<<"1", ".txt">>, <<"2", ".txt">>, <<"test", ".html">>},
     {<<"test", ".html">>},
     {}}

SelApplies == {None, Some(<<>>), Some(<<"other">>)}

\* The calls of Plugin::lock: a Git plugin with `uses` under two different
\* `matches`, a Git plugin without `uses` under every `matches`, and a Remote
\* plugin.
SelInputs ==
    LET call(source, at, uses, matches, tree, apply) ==
            [plugin |-> [name |-> "test", source |-> source, uses |-> uses,
                         apply |-> apply],
             source |-> at,
             matches |-> matches,
             apply |-> DefaultApply,
             fs |-> FsPaths(InitialDisk) \cup {PathJoin(SelDirectory, f) : f \in tree}]
        git == [directory |-> SelDirectory, filename |-> None]
        remote == [directory |-> RemoteDirectory(TestSettings, FileUrl),
                   filename |-> Some(RemoteFilename(TestSettings, FileUrl))]
    IN  {call(Git(PlugUrl, None), git, Some(uses), matches, tree, apply) :
            uses \in SeqsUpTo(SelPatterns, MaxUses),
            matches \in {<<>>, <<NameHtmlPattern, TxtPattern>>},
            tree \in SelTrees, apply \in SelApplies}
        \cup
        {call(Git(PlugUrl, None), git, None, matches, tree, apply) :
            matches \in SeqsUpTo(SelPatterns, MaxMatches),
            tree \in SelTrees, apply \in SelApplies}
        \cup
        {call(Remote(FileUrl), remote, uses, matches, tree, apply) :
            uses \in {None, Some(<<TxtPattern>>), Some(<<BadVarPattern, MissingPattern>>)},
            matches \in {<<>>, <<TxtPattern>>, <<BadGlobPattern>>},
            tree \in SelTrees, apply \in SelApplies}

\* plugin.lock(settings, source, matches, apply)
CallPluginLock ==
    /\ selIn # <<>>
    /\ selOut = <<>>
    /\ selOut' = Some(PluginLock(selIn.plugin, TestSettings, selIn.source,
                                 selIn.matches, selIn.apply, selIn.fs))
    /\ UNCHANGED <<selIn, orchVars, flowVars, unitVars>>

InitSel == selIn \in SelInputs /\ selOut = <<>> /\ IdleOrch /\ IdleFlow /\ IdleUnits

NextSel == CallPluginLock

SpecSel == InitSel /\ [][NextSel]_vars

\* The call has returned.
SelDone == selIn # <<>> /\ selOut # <<>>

\* The patterns of a list as Plugin::lock hands them to the glob engine:
\* rendered against the plugin's data and joined to its directory.
SelGlobPatterns(list) ==
    [i \in 1..Len(list) |->
        PathJoin(selIn.source.directory,
                 RenderTemplate(list[i],
                                PluginData(TestSettings, selIn.plugin.name,
                                           selIn.source.directory)).text)]

\* Every pattern of the list renders and parses.
SelWellFormed(list) ==
    \A i \in 1..Len(list) :
        /\ RenderTemplate(list[i], PluginData(TestSettings, selIn.plugin.name,
                                              selIn.source.directory)).ok
        /\ GlobParses(SelGlobPatterns(list)[i])

\* C9: a plugin that is not Remote and has `uses`: the filenames returned
\* are the glob matches of the rendered `uses` entries, entry after entry,
\* each entry's matches in the glob's order; every entry was handed to the
\* glob engine; the global `matches` play no part.
C9_UsesConcatenation ==
    (SelDone /\ selIn.plugin.source.kind # "Remote" /\ IsSome(selIn.plugin.uses)
        /\ selOut[1].kind = "ok") =>
        LET pats == SelGlobPatterns(selIn.plugin.uses[1])
        IN  /\ selOut[1].locked.filenames =
                   Flatten([i \in 1..Len(pats) |-> Glob(pats[i], selIn.fs)])
            /\ selOut[1].consulted = pats

\* The call of the unit test: `uses` of "*.txt" and "{{ name }}.html" give
\* 1.txt, 2.txt, test.html although `matches` would select something else.
C9_Witness ==
    /\ SelDone
    /\ selIn.plugin.source.kind = "Git"
    /\ selIn.plugin.uses = Some(<<TxtPattern, NameHtmlPattern>>)
    /\ selIn.matches = <<NameHtmlPattern, TxtPattern>>
    /\ selOut[1].kind = "ok"
    /\ selOut[1].locked.filenames =
          <<PathJoin(SelDirectory, <<"1", ".txt">>),
            PathJoin(SelDirectory, <<"2", ".txt">>),
            PathJoin(SelDirectory, <<"test", ".html">>)>>

\* The first pattern of the list that matches a file, 0 if there is none.
SelFirstMatch(pats) ==
    LET hits == {i \in 1..Len(pats) : Glob(pats[i], selIn.fs) # <<>>}
    IN  IF hits = {} THEN 0 ELSE CHOOSE i \in hits : \A j \in hits : i <= j

\* C10: a plugin that is not Remote and has no `uses`: the filenames
\* returned are the matches of the first `matches` pattern that matches a
\* file, the patterns after it are not handed to the glob engine, and when
\* no pattern matches the call succeeds with no filenames.
C10_MatchesFirstWins ==
    (SelDone /\ selIn.plugin.source.kind # "Remote" /\ ~IsSome(selIn.plugin.uses)) =>
        LET pats == SelGlobPatterns(selIn.matches)
            first == SelFirstMatch(pats)
        IN  /\ selOut[1].kind = "ok" =>
                  /\ selOut[1].locked.filenames =
                        IF first = 0 THEN <<>> ELSE Glob(pats[first], selIn.fs)
                  /\ selOut[1].consulted =
                        IF first = 0 THEN pats ELSE SubSeq(pats, 1, first)
            /\ (SelWellFormed(selIn.matches) /\ first = 0) =>
                  /\ selOut[1].kind = "ok"
                  /\ selOut[1].locked.filenames = <<>>

\* No match for the first pattern, 1.txt and 2.txt for the second, and a
\* third pattern that would match test.html but is not consulted.
C10_Witness ==
    /\ SelDone
    /\ selIn.plugin.source.kind = "Git"
    /\ selIn.plugin.uses = None
    /\ selIn.matches = <<MissingPattern, TxtPattern, NameHtmlPattern>>
    /\ Glob(SelGlobPatterns(selIn.matches)[3], selIn.fs) # <<>>
    /\ selOut[1].kind = "ok"
    /\ selOut[1].locked.filenames =
          <<PathJoin(SelDirectory, <<"1", ".txt">>),
            PathJoin(SelDirectory, <<"2", ".txt">>)>>
    /\ Len(selOut[1].consulted) = 2

\* No pattern matches a file and the call succeeds with no filenames.
C10_WitnessEmpty ==
    /\ SelDone
    /\ selIn.plugin.uses = None
    /\ selIn.plugin.source.kind = "Git"
    /\ Len(selIn.matches) = 2
    /\ selOut[1].kind = "ok"
    /\ selOut[1].locked.filenames = <<>>

\* The rendered text of the patterns of a list.
SelRendered(list) ==
    [i \in 1..Len(list) |->
        RenderTemplate(list[i], PluginData(TestSettings, selIn.plugin.name,
                                           selIn.source.directory)).text]

\* The entries of a list that render, parse and match no file.
SelZeroMatch(list) ==
    {i \in 1..Len(list) :
        /\ SelWellFormed(<<list[i]>>)
        /\ Glob(SelGlobPatterns(list)[i], selIn.fs) = <<>>}

\* C11: a plugin that is not Remote and has a `uses` entry that matches no
\* file: Plugin::lock returns an error and no LockedPlugin, whatever the
\* other entries matched; and when the entries before it rendered, parsed
\* and matched, the error is the no-files-matched error that names the
\* rendered pattern of that entry.
C11_UsesZeroMatchFails ==
    (SelDone /\ selIn.plugin.source.kind # "Remote" /\ IsSome(selIn.plugin.uses)) =>
        LET uses == selIn.plugin.uses[1]
        IN  \A i \in SelZeroMatch(uses) :
                /\ selOut[1].kind = "err"
                /\ selOut[1].locked = <<>>
                /\ (/\ SelWellFormed(SubSeq(uses, 1, i - 1))
                    /\ SelZeroMatch(SubSeq(uses, 1, i - 1)) = {}) =>
                      selOut[1].err =
                          Error("failed to find any files matching", SelRendered(uses)[i])

\* The first entry matched 1.txt and 2.txt, the second matches nothing, and
\* the call fails naming the second.
C11_Witness ==
    /\ SelDone
    /\ selIn.plugin.source.kind = "Git"
    /\ selIn.plugin.uses = Some(<<TxtPattern, MissingPattern>>)
    /\ Glob(SelGlobPatterns(selIn.plugin.uses[1])[1], selIn.fs) # <<>>
    /\ selOut[1].kind = "err"
    /\ selOut[1].locked = <<>>
    /\ selOut[1].err = Error("failed to find any files matching", <<"missing">>)

\* C12: a Remote plugin: the filenames returned are the download filename
\* of the LockedSource and nothing else, whatever `uses` and `matches` hold;
\* nothing is handed to the glob engine and no pattern is rendered, so
\* patterns that do not render or parse do no harm.
C12_RemoteSingleFile ==
    (SelDone /\ selIn.plugin.source.kind = "Remote") =>
        /\ selOut[1].kind = "ok"
        /\ selOut[1].locked.filenames = <<selIn.source.filename[1]>>
        /\ selOut[1].locked.directory = selIn.source.directory
        /\ selOut[1].consulted = <<>>

\* The call of the unit test, but with `uses` that do not render and
\* `matches` that do not parse, over a directory with other files.
C12_Witness ==
    /\ SelDone
    /\ selIn.plugin.source.kind = "Remote"
    /\ selIn.plugin.uses = Some(<<BadVarPattern, MissingPattern>>)
    /\ selIn.matches = <<BadGlobPattern>>
    /\ selOut[1].kind = "ok"
    /\ selOut[1].locked.filenames = <<RemoteFilename(TestSettings, FileUrl)>>

\* C25: the apply list of the LockedPlugin is the plugin's own apply list
\* when it has one, an empty one included, and the global apply list
\* otherwise, for a Remote plugin and for any other.
C25_ApplyDefault ==
    (SelDone /\ selOut[1].kind = "ok") =>
        IF selIn.plugin.apply = None
        THEN selOut[1].locked.apply = selIn.apply
        ELSE selOut[1].locked.apply = selIn.plugin.apply[1]

\* A Remote plugin that defined an empty apply list and was locked with it,
\* not with the global list.
C25_Witness ==
    /\ SelDone
    /\ selOut[1].kind = "ok"
    /\ selIn.plugin.source.kind = "Remote"
    /\ selIn.plugin.apply = Some(<<>>)
    /\ selIn.apply # <<>>
    /\ selOut[1].locked.apply = <<>>

\* A git plugin without an apply list, locked with the global list.
C25_WitnessGlobal ==
    /\ SelDone
    /\ selOut[1].kind = "ok"
    /\ selIn.plugin.source.kind = "Git"
    /\ selIn.plugin.apply = None
    /\ selOut[1].locked.apply = DefaultApply

\* ------------------------------------------------------------------------
\* Sheldon::run with the lock and source commands (specification SpecFlow)
\* ------------------------------------------------------------------------

\* The errors a LockedConfig may carry: none, one, two, ...
ErrorLists ==
    {[i \in 1..n |-> Error("failed to install source", <<PluginNames[i]>>)] :
        n \in 0..MaxErrors}

FlowPlugin(apply) ==
    [name |-> "test",
     directory |-> SelDirectory,
     filenames |-> <<PathJoin(SelDirectory, <<"1", ".txt">>),
                     PathJoin(SelDirectory, <<"2", ".txt">>)>>,
     apply |-> apply]

\* The manifests of the flows by what they lock to: one whose script
\* renders; one whose plugin applies a template that renders and then one
\* that uses an undefined variable; one whose plugin applies a template that
\* does not exist; one whose plugin has no files and applies an
\* each-template that uses an undefined variable.
FlowContents ==
    {[templates |-> DefaultTemplates, plugins |-> <<FlowPlugin(<<"source">>)>>],
     [templates |-> DefaultTemplates
                    \o <<[name |-> "bad", value |-> <<Lit("source"), Var("nope")>>,
                          each |-> FALSE]>>,
      plugins |-> <<FlowPlugin(<<"source", "bad">>)>>],
     [templates |-> DefaultTemplates, plugins |-> <<FlowPlugin(<<"gone">>)>>],
     [templates |-> <<[name |-> "source", value |-> <<Var("nope"), Var("filename")>>,
                       each |-> TRUE]>>,
      plugins |-> <<[FlowPlugin(<<"source">>) EXCEPT !.filenames = <<>>]>>]}

\* What Sheldon::locked may return under the given settings: an error (the
\* manifest does not load, or Config::lock fails), or a LockedConfig with
\* the settings locked and any of the error lists.
LockedOutcomes(settings) ==
    {[kind |-> "err", err |-> Error("failed to load config file", <<>>), locked |-> <<>>]}
    \cup
    {[kind |-> "ok", err |-> <<>>,
      locked |-> [settings |-> SettingsLock(settings), templates |-> c.templates,
                  plugins |-> c.plugins, errors |-> es]] :
        c \in FlowContents, es \in ErrorLists}

\* What a write of the lock file may do: succeed, fail before the file is
\* touched, or fail after it was truncated.
WriteOutcomes == {"ok", "denied", "partial"}

\* What LockedConfig::to_path may do with that LockedConfig: when it does not
\* serialize, the call fails before the file is opened.
ToPathOutcomes(lc) == IF Serializes(lc) THEN WriteOutcomes ELSE {"refused"}

\* A write that leaves the file where it is.
WrittenNowhere(file, lc, now, outcome) == file

\* The lock file after LockedConfig::to_path with that outcome.
Written(file, lc, now, outcome) ==
    IF outcome = "ok" THEN [kind |-> "locked", mtime |-> now, content |-> Serialized(lc)]
    ELSE IF outcome = "partial" THEN [kind |-> "corrupt", mtime |-> now, content |-> <<>>]
    ELSE file

\* The settings of an invocation.
FlowSettings == {TestSettings, [TestSettings EXCEPT !.version = "0.5.1"]}

\* Sheldon::source up to the LockedConfig: the lock file is loaded, or the
\* manifest is locked again.
SourceLoad ==
    /\ cmd = "source"
    /\ fpc = "start"
    /\ LET loaded == FromPath(lockFile)
       IN  IF ~relock /\ ~NewerThan(cfgFile, lockFile) /\ loaded.ok
              /\ Verify(loaded.locked, ctx)
           THEN /\ locked' = Some(loaded.locked)
                /\ toPath' = FALSE
                /\ fpc' = "render"
                /\ UNCHANGED <<events, exit>>
           ELSE \E out \in LockedOutcomes(ctx) :
                   /\ events' = Append(events, "orchestrator")
                   /\ toPath' = TRUE
                   /\ IF out.kind = "err"
                      THEN /\ exit' = [kind |-> "err", err |-> out.err]
                           /\ fpc' = "exit"
                           /\ UNCHANGED locked
                      ELSE /\ locked' = Some(out.locked)
                           /\ fpc' = "render"
                           /\ UNCHANGED exit
    /\ UNCHANGED <<cmd, relock, ctx, cfgFile, lockFile, clock, script, emitted,
                   stdout, runs, lockBefore>>
    /\ UNCHANGED <<orchVars, selVars, unitVars>>

\* Sheldon::source: render the script.
SourceRender ==
    /\ cmd = "source"
    /\ fpc = "render"
    /\ LET r == LockedConfigSource(locked[1])
       IN  IF r.kind = "ok"
           THEN /\ script' = Some(r.text)
                /\ fpc' = "finish"
                /\ UNCHANGED exit
           ELSE IF r.kind = "err"
           THEN /\ exit' = [kind |-> "err",
                            err |-> Ctx(r.err, "failed to render source", <<>>)]
                /\ fpc' = "exit"
                /\ UNCHANGED script
           ELSE /\ exit' = [kind |-> "panic", err |-> <<>>]
                /\ fpc' = "done"
                /\ UNCHANGED script
    /\ UNCHANGED <<cmd, relock, ctx, cfgFile, lockFile, clock, locked, toPath,
                   events, emitted, stdout, runs, lockBefore>>
    /\ UNCHANGED <<orchVars, selVars, unitVars>>

\* A finish that cleans and writes whether or not the lock carries errors.
SourceFinishDespiteErrors ==
    /\ cmd = "source"
    /\ fpc = "finish"
    /\ IF toPath
       THEN \E w \in ToPathOutcomes(locked[1]) :
               /\ events' = events \o <<"clean", "write">>
               /\ lockFile' = Written(lockFile, locked[1], clock, w)
               /\ clock' = clock + 1
               /\ IF w = "ok"
                  THEN /\ stdout' = Append(stdout, script[1])
                       /\ exit' = [kind |-> "ok", err |-> <<>>]
                  ELSE /\ exit' = [kind |-> "err",
                                   err |-> Error("failed to write lock file", <<>>)]
                       /\ UNCHANGED stdout
               /\ UNCHANGED emitted
       ELSE /\ emitted' = emitted \o locked[1].errors
            /\ stdout' = Append(stdout, script[1])
            /\ exit' = [kind |-> "ok", err |-> <<>>]
            /\ UNCHANGED <<events, lockFile, clock>>
    /\ fpc' = "exit"
    /\ UNCHANGED <<cmd, relock, ctx, cfgFile, locked, toPath, script, runs, lockBefore>>
    /\ UNCHANGED <<orchVars, selVars, unitVars>>

\* Sheldon::source after rendering: clean and write the lock file, or report
\* the errors; then print the script.
SourceFinish ==
    /\ cmd = "source"
    /\ fpc = "finish"
    /\ IF toPath /\ locked[1].errors = <<>>
       THEN \E w \in ToPathOutcomes(locked[1]) :
               /\ events' = events \o <<"clean", "write">>
               /\ lockFile' = Written(lockFile, locked[1], clock, w)
               /\ clock' = clock + 1
               /\ IF w = "ok"
                  THEN /\ stdout' = Append(stdout, script[1])
                       /\ exit' = [kind |-> "ok", err |-> <<>>]
                  ELSE /\ exit' = [kind |-> "err",
                                   err |-> Error("failed to write lock file", <<>>)]
                       /\ UNCHANGED stdout
               /\ UNCHANGED emitted
       ELSE /\ emitted' = emitted \o locked[1].errors
            /\ stdout' = Append(stdout, script[1])
            /\ exit' = [kind |-> "ok", err |-> <<>>]
            /\ UNCHANGED <<events, lockFile, clock>>
    /\ fpc' = "exit"
    /\ UNCHANGED <<cmd, relock, ctx, cfgFile, locked, toPath, script, runs, lockBefore>>
    /\ UNCHANGED <<orchVars, selVars, unitVars>>

\* Sheldon::lock up to the LockedConfig.
LockLoad ==
    /\ cmd = "lock"
    /\ fpc = "start"
    /\ \E out \in LockedOutcomes(ctx) :
          /\ events' = Append(events, "orchestrator")
          /\ IF out.kind = "err"
             THEN /\ exit' = [kind |-> "err", err |-> out.err]
                  /\ fpc' = "exit"
                  /\ UNCHANGED locked
             ELSE /\ locked' = Some(out.locked)
                  /\ fpc' = "finish"
                  /\ UNCHANGED exit
    /\ UNCHANGED <<cmd, relock, ctx, cfgFile, lockFile, clock, toPath, script,
                   emitted, stdout, runs, lockBefore>>
    /\ UNCHANGED <<orchVars, selVars, unitVars>>

\* Sheldon::lock with the LockedConfig: with errors, report all but the last
\* and fail with the last; without, clean and write the lock file.
LockFinish ==
    /\ cmd = "lock"
    /\ fpc = "finish"
    /\ LET errors == locked[1].errors
       IN  IF errors # <<>>
           THEN /\ emitted' = emitted \o SubSeq(errors, 1, Len(errors) - 1)
                /\ exit' = [kind |-> "err", err |-> errors[Len(errors)]]
                /\ UNCHANGED <<events, lockFile, clock>>
           ELSE \E w \in ToPathOutcomes(locked[1]) :
                   /\ events' = events \o <<"clean", "write">>
                   /\ lockFile' = Written(lockFile, locked[1], clock, w)
                   /\ clock' = clock + 1
                   /\ exit' = IF w = "ok"
                              THEN [kind |-> "ok", err |-> <<>>]
                              ELSE [kind |-> "err",
                                    err |-> Error("failed to write lock file", <<>>)]
                   /\ UNCHANGED emitted
    /\ fpc' = "exit"
    /\ UNCHANGED <<cmd, relock, ctx, cfgFile, locked, toPath, script, stdout, runs,
                   lockBefore>>
    /\ UNCHANGED <<orchVars, selVars, unitVars>>

\* An end that does not report the error of the command.
RunExitSilent ==
    /\ fpc = "exit"
    /\ fpc' = "done"
    /\ UNCHANGED <<cmd, relock, ctx, cfgFile, lockFile, clock, locked, toPath, script,
                   events, emitted, stdout, exit, runs, lockBefore>>
    /\ UNCHANGED <<orchVars, selVars, unitVars>>

\* The end of Sheldon::run: the error of a failed command is reported.
RunExit ==
    /\ fpc = "exit"
    /\ emitted' = IF exit.kind = "err" THEN Append(emitted, exit.err) ELSE emitted
    /\ fpc' = "done"
    /\ UNCHANGED <<cmd, relock, ctx, cfgFile, lockFile, clock, locked, toPath, script,
                   events, stdout, exit, runs, lockBefore>>
    /\ UNCHANGED <<orchVars, selVars, unitVars>>

\* The program is invoked again, perhaps after the manifest was edited, or
\* with other settings.
Invoke ==
    /\ fpc = "done"
    /\ runs < MaxRuns
    /\ \E c \in {"lock", "source"}, r \in BOOLEAN, s \in FlowSettings, edit \in BOOLEAN :
          /\ c = "lock" => ~r
          /\ cmd' = c
          /\ relock' = r
          /\ ctx' = s
          /\ cfgFile' = IF edit THEN [cfgFile EXCEPT !.mtime = clock] ELSE cfgFile
          /\ clock' = IF edit THEN clock + 1 ELSE clock
    /\ fpc' = "start"
    /\ locked' = None
    /\ toPath' = TRUE
    /\ script' = None
    /\ events' = <<>>
    /\ emitted' = <<>>
    /\ stdout' = <<>>
    /\ exit' = NoExit
    /\ runs' = runs + 1
    /\ lockBefore' = lockFile
    /\ UNCHANGED lockFile
    /\ UNCHANGED <<orchVars, selVars, unitVars>>

\* The LockedSettings found in the lock file of the first invocation: those
\* of the current settings, or settings that differ from them in one field.
StoredSettings ==
    {SettingsLock(TestSettings),
     [SettingsLock(TestSettings) EXCEPT !.version = "0.4.0"],
     [SettingsLock(TestSettings) EXCEPT !.home = <<"/", "other">>],
     [SettingsLock(TestSettings) EXCEPT !.root = <<"/", "other">>],
     [SettingsLock(TestSettings) EXCEPT !.config_file = <<"/", "other">>],
     [SettingsLock(TestSettings) EXCEPT !.lock_file = <<"/", "other">>]}

\* The lock file of the first invocation.
InitialLockFiles ==
    {MissingFile}
    \cup {[kind |-> "corrupt", mtime |-> t, content |-> <<>>] : t \in 1..2}
    \cup {[kind |-> "locked", mtime |-> t,
           content |-> Serialized([settings |-> st, templates |-> c.templates,
                                       plugins |-> c.plugins])] :
            t \in 1..2, st \in StoredSettings, c \in FlowContents}

InitFlow ==
    /\ cmd \in {"lock", "source"}
    /\ relock \in BOOLEAN
    /\ cmd = "lock" => ~relock
    /\ ctx = TestSettings
    /\ cfgFile \in {[kind |-> "file", mtime |-> t] : t \in 1..2}
    /\ lockFile \in InitialLockFiles
    /\ clock = 3
    /\ fpc = "start"
    /\ locked = None
    /\ toPath = TRUE
    /\ script = None
    /\ events = <<>>
    /\ emitted = <<>>
    /\ stdout = <<>>
    /\ exit = NoExit
    /\ runs = 1
    /\ lockBefore = lockFile
    /\ IdleOrch
    /\ IdleSel
    /\ IdleUnits

NextFlow ==
    \/ SourceLoad
    \/ SourceRender
    \/ SourceFinish
    \/ LockLoad
    \/ LockFinish
    \/ RunExit
    \/ Invoke

SpecFlow == InitFlow /\ [][NextFlow]_vars

\* ------------------------------------------------------------------------
\* Properties of the flows (specification SpecFlow)
\* ------------------------------------------------------------------------

Did(e) == e \in Range(events)

\* The source command has decided between the lock file and a new lock.
SourceDecided == cmd = "source" /\ fpc \in {"render", "finish", "exit", "done"}

\* The source command is over: it returned, or the process panicked.
SourceEnded == cmd = "source" /\ fpc = "done"

\* Sheldon::source has returned, with a value or an error.
SourceReturned == SourceEnded /\ exit.kind # "panic"

LockReturned == cmd = "lock" /\ fpc = "done"

\* The four conditions of reuse, on the files as the invocation found them.
ReuseConditions ==
    /\ LET stored == FromPath(lockBefore)
       IN  /\ stored.ok
           /\ stored.locked.settings.version = ctx.version
           /\ stored.locked.settings.home = ctx.home
           /\ stored.locked.settings.root = ctx.root
           /\ stored.locked.settings.config_file = ctx.config_file
           /\ stored.locked.settings.lock_file = ctx.lock_file
    /\ cfgFile.mtime <= lockBefore.mtime
    /\ ~relock

\* The flow holds a LockedConfig that the orchestrator made in this
\* invocation.
Recomputed == IsSome(locked) /\ Did("orchestrator")

\* C5: the source flow takes its LockedConfig from the lock file without
\* running the orchestrator if and only if the lock file parses, its settings
\* equal the current ones field by field, the manifest is not newer than the
\* lock file and no relock was requested.
C5_ReuseIff ==
    SourceDecided =>
        /\ ReuseConditions =>
              /\ ~Did("orchestrator")
              /\ locked = Some(FromPath(lockBefore).locked)
        /\ ~ReuseConditions => Did("orchestrator")

\* A source run that printed the script of the lock file it found.
C5_Witness ==
    /\ SourceReturned
    /\ ReuseConditions
    /\ ~Did("orchestrator")
    /\ exit.kind = "ok"
    /\ stdout = <<script[1]>>
    /\ lockFile = lockBefore

\* C6 as stated: whenever a reuse condition fails, the orchestrator was run
\* and the lock file holds the new LockedConfig when source returns.
C6_AlwaysOverwritten ==
    (SourceReturned /\ ~ReuseConditions) =>
        /\ Did("orchestrator")
        /\ IsSome(locked)
        /\ lockFile.kind = "locked"
        /\ lockFile.content = Serialized(locked[1])

\* C6 as amended: whenever a reuse condition fails, the orchestrator was
\* run; if it returned a LockedConfig without errors and the script
\* rendered, the lock file was written and, source having returned
\* successfully, holds the new LockedConfig; if the orchestrator failed, the
\* LockedConfig carries errors or the script did not render, the lock file
\* is as it was.
C6_OverwrittenWhenClean ==
    (SourceEnded /\ ~ReuseConditions) =>
        /\ Did("orchestrator")
        /\ IF IsSome(locked) /\ locked[1].errors = <<>> /\ IsSome(script)
           THEN /\ Did("write")
                /\ exit.kind = "ok" =>
                      /\ lockFile.kind = "locked"
                      /\ lockFile.content = Serialized(locked[1])
                      /\ lockFile.mtime > lockBefore.mtime
           ELSE lockFile = lockBefore

\* A source run that found a lock file of other settings and replaced it.
C6_Witness ==
    /\ SourceReturned
    /\ lockBefore.kind = "locked"
    /\ ~ReuseConditions
    /\ ~relock
    /\ exit.kind = "ok"
    /\ lockFile.kind = "locked"
    /\ lockFile.content = Serialized(locked[1])
    /\ lockFile.content # lockBefore.content

\* Clean is never run on a LockedConfig that carries errors, in either flow.
NoCleanWithErrors == Did("clean") => (IsSome(locked) /\ locked[1].errors = <<>>)

\* C7 as stated: in the source flow clean and the write happen exactly when
\* the LockedConfig was computed in this invocation and carries no errors;
\* otherwise neither happens and the lock file is unchanged; clean never
\* runs on a LockedConfig with errors.
C7_CleanWriteIffRecomputed ==
    /\ SourceReturned =>
          IF Recomputed /\ locked[1].errors = <<>>
          THEN Did("clean") /\ Did("write")
          ELSE ~Did("clean") /\ ~Did("write") /\ lockFile = lockBefore
    /\ NoCleanWithErrors

\* C7 as amended: in the source flow clean and the write happen exactly when
\* the LockedConfig was computed in this invocation, carries no errors and
\* its script rendered; otherwise neither happens and the lock file is
\* unchanged; clean never runs on a LockedConfig with errors.
C7_CleanWriteIffRendered ==
    /\ SourceEnded =>
          IF Recomputed /\ locked[1].errors = <<>> /\ IsSome(script)
          THEN Did("clean") /\ Did("write")
          ELSE ~Did("clean") /\ ~Did("write") /\ lockFile = lockBefore
    /\ NoCleanWithErrors

\* A source run that computed a LockedConfig with errors: the script is
\* printed, the errors are reported, nothing is cleaned or written.
C7_Witness ==
    /\ SourceReturned
    /\ Recomputed
    /\ locked[1].errors # <<>>
    /\ lockBefore.kind = "locked"
    /\ IsSome(script)
    /\ stdout = <<script[1]>>
    /\ emitted = locked[1].errors
    /\ ~Did("clean")
    /\ ~Did("write")
    /\ lockFile = lockBefore

\* C8: in the lock flow a LockedConfig with errors has every error reported,
\* in order, the command fails, nothing is cleaned or written and the lock
\* file is as it was; a LockedConfig without errors is cleaned and then
\* written, and the lock file holds it when the command succeeds.
C8_LockFlow ==
    (LockReturned /\ IsSome(locked)) =>
        IF locked[1].errors # <<>>
        THEN /\ emitted = locked[1].errors
             /\ exit.kind = "err"
             /\ ~Did("clean")
             /\ ~Did("write")
             /\ lockFile = lockBefore
        ELSE /\ events = <<"orchestrator", "clean", "write">>
             /\ exit.kind = "ok" =>
                   /\ lockFile.kind = "locked"
                   /\ lockFile.content = Serialized(locked[1])

\* A lock run whose LockedConfig carried two errors over an existing lock
\* file.
C8_Witness ==
    /\ LockReturned
    /\ IsSome(locked)
    /\ Len(locked[1].errors) = 2
    /\ emitted = locked[1].errors
    /\ lockBefore.kind = "locked"
    /\ lockFile = lockBefore

\* A lock run without errors that replaced the lock file.
C8_WitnessWritten ==
    /\ LockReturned
    /\ IsSome(locked)
    /\ locked[1].errors = <<>>
    /\ exit.kind = "ok"
    /\ lockFile.content = Serialized(locked[1])
    /\ lockFile # lockBefore

\* The invocation that is over wrote the lock file and succeeded.
JustWritten == fpc = "done" /\ exit.kind = "ok" /\ Did("write")

\* C28: the LockedSettings of a LockedConfig that the orchestrator made
\* under the current settings equal these settings under the verifier's
\* comparison; and when an invocation that wrote the lock file and succeeded
\* is followed by a source invocation with the same settings, the manifest
\* untouched and no relock, that invocation finds the four conditions of
\* reuse satisfied by the file.
C28_WrittenLockReused ==
    /\ [](Recomputed => SettingsEq(ctx, locked[1].settings))
    /\ [][(JustWritten /\ fpc' = "start" /\ cmd' = "source" /\ ~relock'
             /\ ctx' = ctx /\ cfgFile' = cfgFile) => ReuseConditions']_vars

\* The second invocation, a source command, took its LockedConfig from the
\* lock file the first invocation had written, and printed its script.
C28_Witness ==
    /\ runs = 2
    /\ SourceReturned
    /\ exit.kind = "ok"
    /\ ~relock
    /\ ~Did("orchestrator")
    /\ lockBefore.kind = "locked"
    /\ lockBefore.mtime >= 3
    /\ SettingsEq(ctx, FromPath(lockBefore).locked.settings)
    /\ stdout = <<script[1]>>

\* ------------------------------------------------------------------------
\* Source::lock called repeatedly on one source (specification SpecInst)
\* ------------------------------------------------------------------------

IndexUrl == [host |-> Some("host.io"), segs |-> <<"test", "">>]

NoHostUrl == [host |-> None, segs |-> <<"test", ".html">>]

\* The sources that are installed: git sources without a reference and with
\* references that resolve, do not resolve, or resolve relative to HEAD;
\* downloads; local directories.
InstSources ==
    {Git(PlugUrl, None), Git(NoHostUrl, None)}
    \cup {Git(PlugUrl, Some(r)) :
            r \in {Tag("v1"), Tag("derp"), Tag("nope"), Branch("master"), Branch("nope"),
                   Revision("c1"), Revision("t2"), Revision("b1"), Revision("HEAD^")}}
    \cup {Remote(FileUrl), Remote(IndexUrl), Remote(NoHostUrl)}
    \cup {Local(LocalDir), Local(<<"/", "missing">>), Local(<<"~", "local">>),
          Local(PathJoin(LocalDir, <<"other", ".txt">>))}

\* The disk before the first install: the initial disk, or one on which the
\* clone directory of PlugUrl is a plain directory with a file in it.
JunkDisk ==
    [InitialDisk EXCEPT
        !.dirs = @ \cup {GitDirectory(TestSettings, PlugUrl)},
        !.files = (PathJoin(GitDirectory(TestSettings, PlugUrl), <<"junk">>) :>
                      [content |-> "complete", mtime |-> 0]) @@ @]

InstDisks == {InitialDisk, JunkDisk}

\* source.lock(settings), once more.
Install ==
    /\ IsSome(instSource)
    /\ Len(instLog) < MaxInstalls
    /\ \E net \in NetOutcomes :
          LET r == SourceLock(instSource[1], TestSettings, instDisk, net)
          IN  /\ instDisk' = r.disk
              /\ instLog' = Append(instLog, [net |-> net, before |-> instDisk, out |-> r])
    /\ UNCHANGED <<instSource, pinVars, lcVars>>
    /\ UNCHANGED <<orchVars, selVars, flowVars>>

InitInst ==
    /\ instSource \in {Some(src) : src \in InstSources}
    /\ instDisk \in InstDisks
    /\ instLog = <<>>
    /\ IdlePin
    /\ IdleLocked
    /\ IdleOrch
    /\ IdleSel
    /\ IdleFlow

NextInst == Install

SpecInst == InitInst /\ [][NextInst]_vars

\* The source installed is a download whose URL has a host.
InstRemote ==
    /\ IsSome(instSource)
    /\ instSource[1].kind = "Remote"
    /\ IsSome(instSource[1].url.host)

InstFilename == RemoteFilename(TestSettings, instSource[1].url)

\* The calls in which a response body arrived.
InstDownloads == {i \in 1..Len(instLog) : instLog[i].out.fetched /\ instLog[i].net # "fail"}

\* C13: installs of one Remote source in a row: a call that finds the target
\* file on disk sends no request, leaves the disk, the file's content and
\* modification time included, as it was, and returns the LockedSource of
\* that directory and file; over the whole sequence a response body is
\* received at most once.
C13_DownloadAtMostOnce ==
    InstRemote =>
        /\ \A i \in 1..Len(instLog) :
              PathExists(instLog[i].before, InstFilename) =>
                  /\ ~instLog[i].out.fetched
                  /\ instLog[i].out.wrote = {}
                  /\ instLog[i].out.disk = instLog[i].before
                  /\ instLog[i].out.disk.files[InstFilename] =
                         instLog[i].before.files[InstFilename]
                  /\ instLog[i].out.ok
                  /\ instLog[i].out.locked =
                         [directory |-> RemoteDirectory(TestSettings, instSource[1].url),
                          filename |-> Some(InstFilename)]
        /\ Cardinality(InstDownloads) <= 1

\* Three installs: the request of the first fails, the second downloads the
\* file, and the third, with the network down again, returns the same
\* LockedSource and leaves the file's modification time alone.
C13_Witness ==
    /\ InstRemote
    /\ Len(instLog) = 3
    /\ instLog[1].net = "fail" /\ ~instLog[1].out.ok
    /\ instLog[2].net = "ok" /\ instLog[2].out.fetched /\ instLog[2].out.ok
    /\ instLog[3].net = "fail" /\ instLog[3].out.ok /\ ~instLog[3].out.fetched
    /\ instLog[3].out.locked = instLog[2].out.locked
    /\ instDisk.files[InstFilename] = instLog[2].out.disk.files[InstFilename]

\* C14 as stated: whenever a call of Source::lock succeeded, the next call
\* on the same source succeeds with the same LockedSource, uses no network,
\* clones and downloads nothing, and leaves the disk as the first call left
\* it; at most the hard reset is repeated.
C14_Idempotent ==
    \A i \in 1..(Len(instLog) - 1) :
        instLog[i].out.ok =>
            /\ instLog[i + 1].out.ok
            /\ instLog[i + 1].out.locked = instLog[i].out.locked
            /\ ~instLog[i + 1].out.fetched
            /\ \A w \in instLog[i + 1].out.wrote : w.op = "reset"
            /\ instLog[i + 1].out.disk = instLog[i].out.disk

\* The reference of the source installed resolves relative to HEAD.
InstRelative ==
    /\ IsSome(instSource)
    /\ IsSome(instSource[1].reference)
    /\ instSource[1].reference[1] = Revision("HEAD^")

\* What does hold of two calls in a row: C14_Idempotent for every source
\* but a git source whose revision is relative to HEAD.
C14_IdempotentUnlessRelative == InstRelative \/ C14_Idempotent

\* A git source pinned to a tag, installed twice: a clone and a reset, then
\* the reset alone, and the same working tree after both.
C14_Witness ==
    /\ IsSome(instSource)
    /\ instSource[1] = Git(PlugUrl, Some(Tag("v1")))
    /\ Len(instLog) >= 2
    /\ instLog[1].out.ok
    /\ instLog[1].out.wrote =
          {Wrote("clone", GitDirectory(TestSettings, PlugUrl)),
           Wrote("reset", GitDirectory(TestSettings, PlugUrl))}
    /\ instLog[2].out.ok
    /\ instLog[2].out.wrote = {Wrote("reset", GitDirectory(TestSettings, PlugUrl))}
    /\ instLog[2].out.disk = instLog[1].out.disk

\* C27 as stated: after any sequence of installs of a Remote source, a
\* target file that is on the disk holds the complete body, and a call that
\* succeeded returned a file that holds it.
C27_NoPartialFile ==
    InstRemote =>
        /\ InstFilename \in DOMAIN instDisk.files =>
              instDisk.files[InstFilename].content = "complete"
        /\ \A i \in 1..Len(instLog) :
              instLog[i].out.ok =>
                  instLog[i].out.disk.files[InstFilename].content = "complete"

\* What does hold: the file on the disk is complete unless the body of the
\* one download broke off, and then every later call accepts it as it is.
C27_PartialOnlyAfterCut ==
    InstRemote =>
        \A i \in 1..Len(instLog) :
            LET cut == \E j \in 1..i : instLog[j].net = "cut" /\ instLog[j].out.fetched
            IN  /\ (InstFilename \in DOMAIN instLog[i].out.disk.files /\ ~cut) =>
                      instLog[i].out.disk.files[InstFilename].content = "complete"
                /\ (cut /\ ~instLog[i].out.fetched) =>
                      /\ instLog[i].out.ok
                      /\ instLog[i].out.disk.files[InstFilename].content = "partial"

\* The body of the first download broke off and the second call, with the
\* network up, returned the partial file as the plugin's file.
C27_Witness ==
    /\ InstRemote
    /\ Len(instLog) = 2
    /\ instLog[1].net = "cut" /\ ~instLog[1].out.ok
    /\ instLog[2].net = "ok" /\ instLog[2].out.ok /\ ~instLog[2].out.fetched
    /\ instDisk.files[InstFilename].content = "partial"

\* The source installed is a git source whose URL has a host.
InstGit ==
    /\ IsSome(instSource)
    /\ instSource[1].kind = "Git"
    /\ IsSome(instSource[1].url.host)

InstDirectory == GitDirectory(TestSettings, instSource[1].url)

\* The first message of the error of a failed call.
InstError(i) == instLog[i].out.err[1].msg

\* C23: installs of one git source.  A call that finds a repository at the
\* target directory opens it: it does not clone again, uses no network and
\* does not fail with the clone error, and without a reference it succeeds
\* and leaves the disk alone.  A call whose clone fails for another reason
\* fails with the clone error; a call that finds something else than a
\* repository at the directory fails to open it; a call whose reference does
\* not pin or whose reset fails, fails.  A failed call returns no
\* LockedSource, a successful one the target directory.
C23_CloneOrOpen ==
    InstGit =>
        \A i \in 1..Len(instLog) :
            LET before == instLog[i].before
                out == instLog[i].out
                reference == instSource[1].reference
                isRepo == InstDirectory \in DOMAIN before.head
                exists == PathExists(before, InstDirectory)
                repo == CloneAt(IF isRepo THEN before.head[InstDirectory]
                                ELSE Branches["master"])
                pin == GitReferenceLock(reference[1], repo)
            IN  /\ isRepo =>
                      /\ Wrote("clone", InstDirectory) \notin out.wrote
                      /\ ~out.fetched
                      /\ ~out.ok => InstError(i) # "failed to git clone"
                      /\ ~IsSome(reference) => out.ok /\ out.disk = before
                /\ (~exists /\ instLog[i].net # "ok") =>
                      /\ ~out.ok
                      /\ InstError(i) = "failed to git clone"
                      /\ out.disk = before
                /\ (~exists /\ instLog[i].net = "ok") =>
                      /\ Wrote("clone", InstDirectory) \in out.wrote
                      /\ InstDirectory \in DOMAIN out.disk.head
                /\ (exists /\ ~isRepo) =>
                      /\ ~out.ok
                      /\ InstError(i) = "failed to open repository at"
                      /\ out.disk = before
                /\ ((isRepo \/ instLog[i].net = "ok") /\ (isRepo \/ ~exists)
                        /\ IsSome(reference)) =>
                      /\ ~pin.ok => ~out.ok /\ out.err = pin.err
                      /\ (pin.ok /\ ~IsSome(Peel(repo, pin.id))) =>
                            /\ ~out.ok
                            /\ InstError(i) = "failed to reset repository to revision"
                      /\ (pin.ok /\ IsSome(Peel(repo, pin.id))) =>
                            /\ out.ok
                            /\ out.disk.head[InstDirectory] = Peel(repo, pin.id)[1]
                /\ out.ok <=> out.locked # <<>>
                /\ out.ok => out.locked = [directory |-> InstDirectory, filename |-> None]

\* A source cloned by the first call and opened by the second while the
\* network is down; the second call clones nothing and succeeds.
C23_Witness ==
    /\ InstGit
    /\ Len(instLog) >= 2
    /\ instLog[1].out.ok
    /\ Wrote("clone", InstDirectory) \in instLog[1].out.wrote
    /\ instLog[2].net = "fail"
    /\ instLog[2].out.ok
    /\ Wrote("clone", InstDirectory) \notin instLog[2].out.wrote

\* A call that found a directory that is no repository and failed to open
\* it.
C23_WitnessOpenFails ==
    /\ InstGit
    /\ Len(instLog) >= 1
    /\ ~instLog[1].out.ok
    /\ InstError(1) = "failed to open repository at"

\* ------------------------------------------------------------------------
\* GitReference::lock called repeatedly on one repository (specification
\* SpecPin)
\* ------------------------------------------------------------------------

\* The repository of the unit tests: one commit on the default branch and a
\* tag of it.
TestRepo ==
    [objects |-> [c1 |-> [type |-> "commit", target |-> "c1"]],
     parents |-> <<>>,
     tags |-> [derp |-> "c1"],
     head |-> "c1"]

PinRepos == {TestRepo, CloneAt("c2"), CloneAt("c1")}

PinReferences ==
    {Branch("master"), Branch("nope")}
    \cup {Tag(t) : t \in {"derp", "v1", "nested", "nope"}}
    \cup {Revision(r) : r \in {"c1", "c2", "t1", "t2", "b1", "HEAD", "HEAD^", "derp", "nope"}}

\* reference.lock(&repo), once more.  The repository is only read.
Pin ==
    /\ IsSome(pinRepo)
    /\ Len(pins) < MaxPins
    /\ \E reference \in PinReferences :
          pins' = Append(pins, [reference |-> reference,
                                out |-> GitReferenceLock(reference, pinRepo[1])])
    /\ UNCHANGED <<pinRepo, instVars, lcVars>>
    /\ UNCHANGED <<orchVars, selVars, flowVars>>

InitPin ==
    /\ pinRepo \in {Some(repo) : repo \in PinRepos}
    /\ pins = <<>>
    /\ IdleInst
    /\ IdleLocked
    /\ IdleOrch
    /\ IdleSel
    /\ IdleFlow

NextPin == Pin

SpecPin == InitPin /\ [][NextPin]_vars

C18_WitnessTwice ==
    /\ IsSome(pinRepo)
    /\ pinRepo[1] = CloneAt("c2")
    /\ Len(pins) = 2
    /\ pins[1].reference = Tag("v1")
    /\ pins[2].reference = Tag("v1")
    /\ pins[1].out.id = "c1"
    /\ pins[2].out.id = "c1"

\* The id of a pin is the id of a commit of the repository.
PinsCommit(out) == pinRepo[1].objects[out.id].type = "commit"

\* C24 as stated: whenever GitReference::lock succeeds, the id it returns is
\* the id of a commit, whatever the kind of the reference and whatever
\* object a revision names.
C24_AlwaysCommit ==
    \A i \in 1..Len(pins) : pins[i].out.ok => PinsCommit(pins[i].out)

\* What does hold: a branch and a tag pin to a commit, the tag peeled
\* through any number of tags; a revision pins to a commit when it names a
\* commit or a tag whose target is a commit.
C24_CommitUnlessRevision ==
    \A i \in 1..Len(pins) :
        LET reference == pins[i].reference
            obj == RevparseSingle(pinRepo[1], reference.name)
            direct == IF pinRepo[1].objects[obj[1]].type = "tag"
                      THEN pinRepo[1].objects[obj[1]].target ELSE obj[1]
        IN  pins[i].out.ok =>
                IF reference.kind = "Revision"
                THEN PinsCommit(pins[i].out) <=>
                         pinRepo[1].objects[direct].type = "commit"
                ELSE PinsCommit(pins[i].out)

\* A tag of a tag pinned by name, as a tag, to the commit; the same object
\* pinned as a revision to the inner tag.
C24_Witness ==
    /\ IsSome(pinRepo)
    /\ Len(pins) = 2
    /\ pins[1].reference = Tag("nested")
    /\ pins[1].out.ok /\ pins[1].out.id = "c1"
    /\ pins[2].reference = Revision("t2")
    /\ pins[2].out.ok /\ pins[2].out.id = "t1"

\* ------------------------------------------------------------------------
\* The methods of a LockedConfig (specification SpecLocked)
\* ------------------------------------------------------------------------

PathTemplate ==
    [name |-> "PATH", value |-> <<Lit("export"), Var("directory")>>, each |-> FALSE]

SourceTemplate ==
    [name |-> "source", value |-> <<Lit("source"), Var("filename")>>, each |-> TRUE]

\* The template maps: both templates; the each-template alone; a template
\* that is rendered once and wants a filename; an each-template with a
\* variable that no context holds.
LcTemplates ==
    {<<PathTemplate, SourceTemplate>>,
     <<SourceTemplate>>,
     <<[PathTemplate EXCEPT !.value = <<Lit("export"), Var("filename")>>], SourceTemplate>>,
     <<PathTemplate, [SourceTemplate EXCEPT !.value = <<Var("nope"), Var("filename")>>]>>}

LcFilenames ==
    {<<>>,
     <<PathJoin(SelDirectory, <<"1", ".txt">>)>>,
     <<PathJoin(SelDirectory, <<"2", ".txt">>), PathJoin(SelDirectory, <<"1", ".txt">>)>>}

LcApplies == {<<>>, <<"source">>, <<"PATH", "source">>}

\* The locked plugins by position.
LcPlugins(i) ==
    {[name |-> PluginNames[i], directory |-> SelDirectory, filenames |-> fs, apply |-> ap] :
        fs \in LcFilenames, ap \in LcApplies}

LcInputs ==
    {[settings |-> SettingsLock(TestSettings), templates |-> ts, plugins |-> ps,
      errors |-> es] :
        ts \in LcTemplates,
        ps \in UNION {{q \in [1..n -> UNION {LcPlugins(i) : i \in 1..n}] :
                          \A i \in 1..n : q[i] \in LcPlugins(i)} : n \in 0..MaxLocked},
        es \in ErrorLists}

\* locked.source()
CallSource ==
    /\ IsSome(lcIn)
    /\ lcScript = None
    /\ lcScript' = Some(LockedConfigSource(lcIn[1]))
    /\ UNCHANGED <<lcIn, lcFile, lcWrote, lcRead, instVars, pinVars>>
    /\ UNCHANGED <<orchVars, selVars, flowVars>>

\* locked.to_path(path)
CallToPath ==
    /\ IsSome(lcIn)
    /\ lcWrote = "none"
    /\ \E w \in ToPathOutcomes(lcIn[1]) :
          /\ lcFile' = Written(lcFile, lcIn[1], 1, w)
          /\ lcWrote' = IF w = "ok" THEN "ok" ELSE "err"
    /\ UNCHANGED <<lcIn, lcScript, lcRead, instVars, pinVars>>
    /\ UNCHANGED <<orchVars, selVars, flowVars>>

\* LockedConfig::from_path(path), after the write.
CallFromPath ==
    /\ lcWrote # "none"
    /\ lcRead = None
    /\ lcRead' = Some(FromPath(lcFile))
    /\ UNCHANGED <<lcIn, lcScript, lcFile, lcWrote, instVars, pinVars>>
    /\ UNCHANGED <<orchVars, selVars, flowVars>>

InitLocked ==
    /\ lcIn \in {Some(lc) : lc \in LcInputs}
    /\ lcScript = None
    /\ lcFile = MissingFile
    /\ lcWrote = "none"
    /\ lcRead = None
    /\ IdleInst
    /\ IdlePin
    /\ IdleOrch
    /\ IdleSel
    /\ IdleFlow

NextLocked == CallSource \/ CallToPath \/ CallFromPath

SpecLocked == InitLocked /\ [][NextLocked]_vars

\* The fragment of one rendering, with its newline.
LcFragment(lc, plugin, template, filename) ==
    RenderTemplate(template.value,
                   IF IsSome(filename)
                   THEN [root |-> lc.settings.root, name |-> <<plugin.name>>,
                         directory |-> plugin.directory, filename |-> filename[1]]
                   ELSE [root |-> lc.settings.root, name |-> <<plugin.name>>,
                         directory |-> plugin.directory]).text
    \o <<"\n">>

\* The script as C15 describes it.
LcExpected(lc) ==
    Flatten([p \in 1..Len(lc.plugins) |->
        Flatten([a \in 1..Len(lc.plugins[p].apply) |->
            LET plugin == lc.plugins[p]
                template == TemplateNamed(lc.templates, plugin.apply[a])[1]
            IN  IF template.each
                THEN Flatten([f \in 1..Len(plugin.filenames) |->
                        LcFragment(lc, plugin, template, Some(plugin.filenames[f]))])
                ELSE LcFragment(lc, plugin, template, None)])])

\* C29 as stated: LockedConfig::source returns a script or an error for
\* every LockedConfig, also for one in which a plugin applies a template that
\* the templates map does not hold.
C29_AlwaysResult ==
    IsSome(lcScript) => lcScript[1].kind \in {"ok", "err"}

\* The names that the plugins of a LockedConfig apply and its templates map
\* does not hold.
LcMissing(lc) ==
    {name \in UNION {Range(lc.plugins[i].apply) : i \in 1..Len(lc.plugins)} :
        ~IsSome(TemplateNamed(lc.templates, name))}

\* What does hold: source returns a script or an error when every applied
\* name is in the templates map, and it panics only on a LockedConfig that
\* applies a missing one.
C29_ResultUnlessMissing ==
    IsSome(lcScript) =>
        /\ LcMissing(lcIn[1]) = {} => lcScript[1].kind \in {"ok", "err"}
        /\ lcScript[1].kind = "panic" => LcMissing(lcIn[1]) # {}

\* A LockedConfig whose only template is `source` and whose plugin applies
\* PATH: source() panicked.
C29_Witness ==
    /\ IsSome(lcScript)
    /\ lcScript[1].kind = "panic"
    /\ lcIn[1].templates = <<SourceTemplate>>
    /\ "PATH" \in LcMissing(lcIn[1])

\* C15: a script that LockedConfig::source returns is the concatenation,
\* plugin after plugin in the LockedConfig's order and name after name in the
\* plugin's apply list, of one fragment per filename for an each-template
\* (none for a plugin without filenames) and of one fragment otherwise,
\* every fragment followed by one newline, and nothing else.
C15_ScriptConcatenation ==
    (IsSome(lcScript) /\ lcScript[1].kind = "ok") =>
        lcScript[1].text = LcExpected(lcIn[1])

\* Two plugins: the first applies PATH and source to two filenames, the
\* second applies source to none; three fragments in that order.
C15_Witness ==
    /\ IsSome(lcScript)
    /\ lcScript[1].kind = "ok"
    /\ Len(lcIn[1].plugins) = 2
    /\ lcIn[1].plugins[1].apply = <<"PATH", "source">>
    /\ Len(lcIn[1].plugins[1].filenames) = 2
    /\ lcIn[1].plugins[2].apply = <<"source">>
    /\ lcIn[1].plugins[2].filenames = <<>>
    /\ lcScript[1].text =
          <<"export">> \o SelDirectory \o <<"\n">>
          \o <<"source">> \o PathJoin(SelDirectory, <<"2", ".txt">>) \o <<"\n">>
          \o <<"source">> \o PathJoin(SelDirectory, <<"1", ".txt">>) \o <<"\n">>

C17_WitnessClean ==
    /\ IsSome(lcRead)
    /\ lcWrote = "ok"
    /\ lcIn[1].errors = <<>>
    /\ lcIn[1].plugins # <<>>
    /\ lcRead[1] = [ok |-> TRUE, locked |-> lcIn[1]]

\* ------------------------------------------------------------------------
\* Strict rendering in the source flow (specification SpecFlow)
\* ------------------------------------------------------------------------

\* The variables a template may use.
FlowContext(template) ==
    {"root", "name", "directory"} \cup (IF template.each THEN {"filename"} ELSE {})

\* The template uses a variable that is not in its context.
FlowUndefined(template) ==
    \E i \in 1..Len(template.value) :
        template.value[i].var /\ template.value[i].val \notin FlowContext(template)

\* The (plugin, name) pairs of a LockedConfig whose template exists and uses
\* an undefined variable.
FlowAppliedUndefined(lc) ==
    {<<p, a>> \in (1..Len(lc.plugins)) \X (1..2) :
        /\ a <= Len(lc.plugins[p].apply)
        /\ IsSome(TemplateNamed(lc.templates, lc.plugins[p].apply[a]))
        /\ FlowUndefined(TemplateNamed(lc.templates, lc.plugins[p].apply[a])[1])}

\* Those of them that are rendered at least once: the template is rendered
\* once per plugin, or once per filename of a plugin that has filenames.
FlowRenderedUndefined(lc) ==
    {pa \in FlowAppliedUndefined(lc) :
        \/ ~TemplateNamed(lc.templates, lc.plugins[pa[1]].apply[pa[2]])[1].each
        \/ lc.plugins[pa[1]].filenames # <<>>}

\* C16 as stated: whenever an applied template uses an undefined variable,
\* the source command fails and prints nothing.
C16_StrictAlways ==
    (SourceEnded /\ IsSome(locked) /\ FlowAppliedUndefined(locked[1]) # {}) =>
        /\ exit.kind # "ok"
        /\ stdout = <<>>

\* C16 as amended: whenever an applied template that is rendered at least
\* once uses an undefined variable, LockedConfig::source fails, the source
\* command ends with the render error, and nothing, no fragment rendered
\* before the failure either, is printed.
C16_StrictWhenRendered ==
    (SourceEnded /\ IsSome(locked) /\ FlowRenderedUndefined(locked[1]) # {}) =>
        /\ LockedConfigSource(locked[1]).kind # "ok"
        /\ script = None
        /\ exit.kind \in {"err", "panic"}
        /\ exit.kind = "err" => exit.err[1].msg = "failed to render source"
        /\ stdout = <<>>

\* The plugin's first template rendered two fragments, its second template
\* failed, and nothing was printed.
C16_Witness ==
    /\ SourceEnded
    /\ IsSome(locked)
    /\ Len(locked[1].plugins[1].apply) = 2
    /\ RenderApplied(locked[1], locked[1].plugins[1], locked[1].plugins[1].apply[1]).kind = "ok"
    /\ Len(RenderApplied(locked[1], locked[1].plugins[1],
                         locked[1].plugins[1].apply[1]).text) > 0
    /\ FlowRenderedUndefined(locked[1]) = {<<1, 2>>}
    /\ exit.kind = "err"
    /\ exit.err = Ctx(Error("failed to render template", <<"bad">>),
                      "failed to render source", <<>>)
    /\ stdout = <<>>

====
